---- MODULE Spec2Model ----
(***************************************************************************)
(* Model of the HTTP/2 proxy core of vite-plugin-proxy-http2:              *)
(*   - Http2ConnectionPool   (src/src/connection-pool.ts)                  *)
(*   - RequestQueue          (src/src/logger.ts, lines 80-222)             *)
(*   - the pooled forwarding path of proxyHttp2Request /                   *)
(*     processProxiedRequest (src/src/http2-proxy-enhanced.ts)             *)
(* Every handler that Node runs to completion on the event loop is one     *)
(* action.  The handlers are written as operators from a "world" record    *)
(* (the program state) to the world after the call, so that a handler      *)
(* that calls other methods is the composition of their operators.         *)
(***************************************************************************)
EXTENDS Integers, Sequences, FiniteSets, TLC

VARIABLES
  sessions,     \* Http2ConnectionPool.sessions: origin -> Http2Session record
  order,        \* insertion order of the keys of the sessions Map
  conns,        \* the ClientHttp2Session handles created by connect()
  now,          \* Date.now()
  queue,        \* RequestQueue.queue: origin -> list of QueuedRequest ids
  totalQueued,  \* RequestQueue.totalQueued
  entries,      \* every QueuedRequest object created so far
  reqs,         \* the inbound requests (req/res pairs) seen so far
  streams,      \* the ClientHttp2Stream objects opened so far
  maxSessions,  \* Http2ConnectionPool.maxSessions
  maxQueueSize, \* RequestQueue.maxQueueSize
  http2SupportMap, \* origin -> boolean, the results of supportsHttp2
  probes,       \* the test sessions opened by supportsHttp2
  h1reqs,       \* the upstream requests issued by proxyHttp1Request
  tunnels,      \* the socket pairs of handleWebSocketUpgrade
  pluginOptions, \* the options http2ProxyPlugin was called with
  input,        \* the argument a pure function is applied to
  output,       \* what it returned
  last          \* the handler that ran last, and what it observed

vars == <<sessions, order, conns, now, queue, totalQueued, entries, reqs, streams,
          maxSessions, maxQueueSize, http2SupportMap, probes, h1reqs, tunnels,
          pluginOptions, input, output, last>>

\* everything but the argument and the result of a pure function
engineVars == <<sessions, order, conns, now, queue, totalQueued, entries, reqs, streams,
                maxSessions, maxQueueSize, http2SupportMap, probes, h1reqs, tunnels,
                pluginOptions, last>>

-----------------------------------------------------------------------------
(* Program constants (scaled down) and model bounds *)

Origins == {"o1", "o2", "o3"}

\* the origins the forwarding engine and the queue are driven with
EngineOrigins == {"o1", "o2"}

\* private maxSessions = 100
MaxSessions == 2
\* private maxAge = 5 * 60 * 1000
MaxAge == 1
\* let maxConcurrentStreams = 100 (until remoteSettings arrives)
DefaultMaxConcurrentStreams == 1
\* this.maxQueueSize = options.maxQueueSize || 512: the queue on its own is
\* explored with MaxQueueSize, the forwarding engine with EngineQueueSize
MaxQueueSize == 3
EngineQueueSize == 1

\* bounds of the exploration
MaxReqs == 2
MaxConns == 3
MaxEntries == 4
MaxQueueReqs == 4
MaxTime == 2
MaxPeerStreams == 2
MaxActiveStreams == 2
MaxDrainReqs == 3
MaxAuthLen == 3
MaxHeaders == 2
MaxAttributes == 2
MaxTunnels == 1

\* const timeout = options.proxyTimeout || options.timeout || 120000
DefaultTimeout == 3

\* an option that is not given (undefined)
Undefined == -1

\* !x for a number or undefined
Falsy(x) == x = 0 \/ x = Undefined

\* The route options and request headers that decide how a request is
\* forwarded.  A timeout of 0 stands for a falsy value (undefined or 0);
\* isWebSocketRequest is the value of the test on the upgrade, connection and
\* sec-websocket-* headers; bypass is what the bypass hook returns ("none": no
\* hook, "true": a truthy value that is not a string, "null": null or
\* undefined); router is "none" (static target), "ok" or "bad" (what it returns
\* does not parse as a URL); auth is the route's auth string.
Flags ==
  [ws : BOOLEAN, isWebSocketRequest : BOOLEAN, forceHttp1 : BOOLEAN,
   autoDetectProtocol : BOOLEAN]

\* An auth string is a sequence of characters; "u" stands for any character
\* other than the colon.  The empty sequence stands for an auth option that is
\* undefined or "" (both falsy).
AuthChars == {"u", ":"}

NoAuth == <<>>

AuthValues == UNION {[1..n -> AuthChars] : n \in 0..MaxAuthLen}

PlainFlags ==
  [ws |-> FALSE, isWebSocketRequest |-> FALSE, forceHttp1 |-> FALSE,
   autoDetectProtocol |-> FALSE]

WithRest(f, pt, t, b, rt) ==
  [ws |-> f.ws, isWebSocketRequest |-> f.isWebSocketRequest,
   forceHttp1 |-> f.forceHttp1, autoDetectProtocol |-> f.autoDetectProtocol,
   proxyTimeout |-> pt, timeout |-> t, bypass |-> b, router |-> rt, auth |-> NoAuth]

\* a route with nothing but a target
DefaultOptions == WithRest(PlainFlags, 0, 0, "none", "none")

\* the requests the protocol selection is driven with: every combination of
\* the protocol flags, and for the plain and the forceHttp1 route every
\* combination of the two timeouts, of the bypass results and of the routers
RequestKinds ==
  {WithRest(f, 0, 0, "none", "none") : f \in Flags}
  \cup {WithRest([PlainFlags EXCEPT !.forceHttp1 = h1], pt, t, b, rt) :
          h1 \in BOOLEAN, pt \in {0, 1}, t \in {0, 2},
          b \in {"none"}, rt \in {"none"}}
  \cup {WithRest([PlainFlags EXCEPT !.forceHttp1 = h1], 0, 0, b, rt) :
          h1 \in BOOLEAN, b \in {"none", "string", "true", "false"},
          rt \in {"none", "ok", "bad"}}
  \cup {WithRest([PlainFlags EXCEPT !.ws = x, !.autoDetectProtocol = ~x], 0, 0, "none", rt) :
          x \in BOOLEAN, rt \in {"ok", "bad"}}
  \cup {WithRest(PlainFlags, 0, 0, "null", rt) : rt \in {"none", "bad"}}
  \cup {[DefaultOptions EXCEPT !.auth = <<"u">>]}

\* the routes the plugin as a whole is driven with: no timeout set, or one, or
\* both, on a plain and on a WebSocket route
PluginRoutes ==
  {WithRest([PlainFlags EXCEPT !.ws = ws], pt, t, "none", "none") :
     ws \in BOOLEAN, pt \in {Undefined, 1}, t \in {Undefined, 2}}

\* the options of http2ProxyPlugin(options)
PluginOptionSets ==
  [maxSessions : {Undefined, 1}, sessionMaxAge : {Undefined, 2},
   maxQueueSize : {Undefined}, defaultTimeout : {Undefined, 1},
   defaultProxyTimeout : {Undefined, 2}]

\* http2ProxyPlugin() without options
NoPluginOptions ==
  [maxSessions |-> Undefined, sessionMaxAge |-> Undefined, maxQueueSize |-> Undefined,
   defaultTimeout |-> Undefined, defaultProxyTimeout |-> Undefined]

\* const globalDefaults = { defaultTimeout, defaultProxyTimeout }
globalDefaultsOf(options) ==
  [defaultTimeout |-> options.defaultTimeout,
   defaultProxyTimeout |-> options.defaultProxyTimeout]

\* normalizeProxyOptions called with one argument: globalDefaults?.x is undefined
NoGlobalDefaults == [defaultTimeout |-> Undefined, defaultProxyTimeout |-> Undefined]

\* normalizeProxyOptions(options, globalDefaults): a ?? b
normalizeProxyOptions(options, globalDefaults) ==
  [options EXCEPT
     !.timeout = IF @ = Undefined THEN globalDefaults.defaultTimeout ELSE @,
     !.proxyTimeout = IF @ = Undefined THEN globalDefaults.defaultProxyTimeout ELSE @]

\* String.prototype.toLowerCase, and the i flag of a regular expression, on
\* one piece of text
toLowerCase(t) ==
  IF t = "Domain" THEN "domain" ELSE IF t = "Path" THEN "path"
  ELSE IF t = "WebSocket" THEN "websocket" ELSE IF t = "Upgrade" THEN "upgrade" ELSE t

\* The headers that the WebSocket test of proxyHttp2Request reads.  A value is
\* a sequence of pieces of text; a header that is absent is not in the record.
UpgradeHeaderNames == {"upgrade", "connection", "sec-websocket-key", "sec-websocket-version"}

UpgradeHeaderValues ==
  [k \in UpgradeHeaderNames |->
     CASE k = "upgrade" -> {<<"websocket">>, <<"WebSocket">>, <<"h2c">>}
       [] k = "connection" -> {<<"keep-alive">>, <<"Upgrade">>,
                               <<"keep-alive", ",", " ", "Upgrade">>}
       [] k = "sec-websocket-key" -> {<<"key">>}
       [] k = "sec-websocket-version" -> {<<"13">>}]

UpgradeHeaders ==
  UNION {{h \in [names -> UNION {UpgradeHeaderValues[k] : k \in UpgradeHeaderNames}] :
            \A k \in names : h[k] \in UpgradeHeaderValues[k]} :
         names \in SUBSET UpgradeHeaderNames}

\* req.headers of a request whose headers decide nothing
NoHeaders == [k \in {} |-> <<>>]

\* the test that takes any upgrade header for a WebSocket upgrade
isWebSocketRequest_anyUpgrade(headers) ==
  \/ "upgrade" \in DOMAIN headers
  \/ "sec-websocket-key" \in DOMAIN headers
  \/ "sec-websocket-version" \in DOMAIN headers

\* const isWebSocketRequest = upgrade?.toLowerCase() === "websocket" ||
\*   (connection?.toLowerCase().includes("upgrade") && sec-websocket-key) ||
\*   sec-websocket-version
isWebSocketRequest(headers) ==
  \/ /\ "upgrade" \in DOMAIN headers
     /\ [i \in 1..Len(headers["upgrade"]) |-> toLowerCase(headers["upgrade"][i])]
          = <<"websocket">>
  \/ /\ "connection" \in DOMAIN headers
     /\ \E i \in 1..Len(headers["connection"]) :
           toLowerCase(headers["connection"][i]) = "upgrade"
     /\ "sec-websocket-key" \in DOMAIN headers
     /\ headers["sec-websocket-key"] # <<>>
  \/ /\ "sec-websocket-version" \in DOMAIN headers
     /\ headers["sec-websocket-version"] # <<>>

\* an inbound request: route is the proxy entry it matched, opt the normalized
\* route it is handled with, headers the headers the WebSocket test reads,
\* path the branch it has taken, nexts the calls of next(), routerCalls the
\* calls of options.router
newRequest(origin, route, opt) ==
  [origin |-> origin, res |-> "none", writes |-> 0, route |-> route, opt |-> opt,
   headers |-> NoHeaders,
   path |-> "none", nexts |-> 0, urlRewritten |-> FALSE, routerCalls |-> 0]

\* outcomes of session.request(): a stream, a thrown error whose message
\* names ERR_HTTP2_OUT_OF_STREAMS, or any other thrown error
RequestOutcomes == {"ok", "oos", "err"}

-----------------------------------------------------------------------------
(* Map and list helpers *)

MapDelete(m, k) == [x \in (DOMAIN m) \ {k} |-> m[x]]

MapSet(m, k, v) == [x \in (DOMAIN m) \cup {k} |-> IF x = k THEN v ELSE m[x]]

SeqRemove(s, x) == SelectSeq(s, LAMBDA y : y # x)

EmptyMap == [x \in {} |-> 0]

\* the world record of the current state
World ==
  [sessions |-> sessions, order |-> order, conns |-> conns, now |-> now,
   queue |-> queue, totalQueued |-> totalQueued, entries |-> entries,
   reqs |-> reqs, streams |-> streams, maxSessions |-> maxSessions,
   maxQueueSize |-> maxQueueSize, http2SupportMap |-> http2SupportMap,
   probes |-> probes, h1reqs |-> h1reqs, tunnels |-> tunnels,
   ret |-> 0, ev |-> {}, cur |-> 0,
   err |-> "none", auth |-> NoAuth]

\* throw new Error(...): err names the error until a catch clears it
throw(w, e) == [w EXCEPT !.err = e, !.ret = 0]

\* note an observation of the running handler
Note(w, e) == [w EXCEPT !.ev = @ \cup {e}]

-----------------------------------------------------------------------------
(* ClientHttp2Session handles (node:http2) *)

\* session.close(): the closed flag is set at once, 'close' is emitted later
closeHandle(c) ==
  [c EXCEPT !.closed = TRUE, !.pend = IF @ = "none" THEN "close" ELSE @]

closeSessions(w, sids) ==
  [w EXCEPT !.conns = [i \in DOMAIN w.conns |->
                         IF i \in sids THEN closeHandle(w.conns[i]) ELSE w.conns[i]]]

\* connect(origin, connectOptions): a new handle, and the connectionTimeout timer.
\* A handle is named by the least number no live handle has; it is forgotten
\* once its 'close' event has been delivered (no event follows 'close').
newSid(w) == CHOOSE i \in 1..(Cardinality(DOMAIN w.conns) + 1) :
               /\ i \notin DOMAIN w.conns
               /\ \A j \in 1..(i - 1) : j \in DOMAIN w.conns

connect(w, origin) ==
  [w EXCEPT !.conns = MapSet(@, newSid(w),
                         [origin |-> origin, closed |-> FALSE, destroyed |-> FALSE,
                          pend |-> "none", connTimer |-> TRUE])]

\* !existing.session.closed && !existing.session.destroyed
Healthy(w, origin) ==
  /\ origin \in DOMAIN w.sessions
  /\ ~w.conns[w.sessions[origin].sid].closed
  /\ ~w.conns[w.sessions[origin].sid].destroyed

-----------------------------------------------------------------------------
(* Http2ConnectionPool *)

sessionsDelete(w, origin) ==
  [w EXCEPT !.sessions = MapDelete(@, origin), !.order = SeqRemove(@, origin)]

sessionsSet(w, origin, entry) ==
  [w EXCEPT !.sessions = MapSet(@, origin, entry),
            !.order = IF origin \in DOMAIN w.sessions THEN @ ELSE Append(@, origin)]

\* the scan of evictOldest with the comparison turned round
RECURSIVE oldestFrom_newest(_, _, _)
oldestFrom_newest(w, i, oldest) ==
  IF i > Len(w.order) THEN oldest
  ELSE LET o == w.order[i] IN
       IF oldest = "none" \/ w.sessions[o].lastUsed > w.sessions[oldest].lastUsed
       THEN oldestFrom_newest(w, i + 1, o)
       ELSE oldestFrom_newest(w, i + 1, oldest)

RECURSIVE oldestFrom(_, _, _)
oldestFrom(w, i, oldest) ==
  IF i > Len(w.order) THEN oldest
  ELSE LET o == w.order[i] IN
       IF oldest = "none" \/ w.sessions[o].lastUsed < w.sessions[oldest].lastUsed
       THEN oldestFrom(w, i + 1, o)
       ELSE oldestFrom(w, i + 1, oldest)

evictOldest(w) ==
  LET oldest == oldestFrom(w, 1, "none") IN
  IF oldest = "none" THEN w
  ELSE Note(sessionsDelete(closeSessions(w, {w.sessions[oldest].sid}), oldest), "evicted")

cleanup(w) ==
  LET expired == {o \in DOMAIN w.sessions : w.now - w.sessions[o].lastUsed > MaxAge}
      w1 == closeSessions(w, {w.sessions[o].sid : o \in expired})
      w2 == IF expired = {} THEN w1 ELSE Note(w1, "expired")
  IN [w2 EXCEPT !.sessions = [o \in (DOMAIN w.sessions) \ expired |-> w.sessions[o]],
                !.order = SelectSeq(w.order, LAMBDA o : o \notin expired)]

\* String.prototype.split(sep) on a sequence of characters
RECURSIVE split(_, _)
split(s, sep) ==
  IF \A i \in 1..Len(s) : s[i] # sep THEN <<s>>
  ELSE LET i == CHOOSE j \in 1..Len(s) : s[j] = sep /\ \A k \in 1..(j - 1) : s[k] # sep
       IN <<SubSeq(s, 1, i - 1)>> \o split(SubSeq(s, i + 1, Len(s)), sep)

\* the validation of options.auth in getSession: the error it throws, or "none"
authError(auth) ==
  IF auth = <<>> THEN "none"
  ELSE LET authParts == split(auth, ":") IN
       IF Len(authParts) # 2 THEN "Invalid auth format"
       ELSE IF authParts[1] = <<>> \/ authParts[2] = <<>>
       THEN "Auth username and password cannot be empty"
       ELSE "none"

\* getSession without the reuse of a healthy session
getSession_noReuse(w, origin, auth) ==
  LET sid == newSid(w)
      w1 == connect(w, origin)
      w2 == IF Cardinality(DOMAIN w1.sessions) >= w1.maxSessions
            THEN evictOldest(w1) ELSE w1
      w3 == sessionsSet(w2, origin,
                [sid |-> sid, lastUsed |-> w.now, activeStreams |-> 0,
                 maxConcurrentStreams |-> DefaultMaxConcurrentStreams])
  IN [Note(cleanup(w3), "created") EXCEPT !.ret = sid]

\* getSession without the connection limit
getSession_noEvict(w, origin, auth) ==
  IF Healthy(w, origin)
  THEN [Note(w, "reused") EXCEPT !.sessions[origin].lastUsed = w.now,
                                 !.ret = w.sessions[origin].sid]
  ELSE LET sid == newSid(w)
           w3 == sessionsSet(connect(w, origin), origin,
                     [sid |-> sid, lastUsed |-> w.now, activeStreams |-> 0,
                      maxConcurrentStreams |-> DefaultMaxConcurrentStreams])
       IN [Note(cleanup(w3), "created") EXCEPT !.ret = sid]

\* getSession that connects before it validates the auth string
getSession_connectFirst(w, origin, auth) ==
  LET w0 == [w EXCEPT !.auth = auth] IN
  IF Healthy(w0, origin)
  THEN [Note(w0, "reused") EXCEPT !.sessions[origin].lastUsed = w.now,
                                  !.ret = w.sessions[origin].sid]
  ELSE LET sid == newSid(w0)
           w1 == connect(w0, origin)
           w2 == IF Cardinality(DOMAIN w1.sessions) >= w1.maxSessions
                 THEN evictOldest(w1) ELSE w1
           w3 == sessionsSet(w2, origin,
                     [sid |-> sid, lastUsed |-> w.now, activeStreams |-> 0,
                      maxConcurrentStreams |-> DefaultMaxConcurrentStreams])
       IN IF authError(auth) # "none" THEN Note(throw(w1, authError(auth)), "threw")
          ELSE [Note(cleanup(w3), "created") EXCEPT !.ret = sid]

getSession(w, origin, auth) ==
  LET w0 == [w EXCEPT !.auth = auth] IN
  IF Healthy(w0, origin)
  THEN [Note(w0, "reused") EXCEPT !.sessions[origin].lastUsed = w.now,
                                  !.ret = w.sessions[origin].sid]
  ELSE IF authError(auth) # "none" THEN Note(throw(w0, authError(auth)), "threw")
  ELSE LET sid == newSid(w0)
           w1 == connect(w0, origin)
           w2 == IF Cardinality(DOMAIN w1.sessions) >= w1.maxSessions
                 THEN evictOldest(w1) ELSE w1
           w3 == sessionsSet(w2, origin,
                     [sid |-> sid, lastUsed |-> w.now, activeStreams |-> 0,
                      maxConcurrentStreams |-> DefaultMaxConcurrentStreams])
       IN [Note(cleanup(w3), "created") EXCEPT !.ret = sid]

canAcceptStream(w, origin) ==
  /\ Healthy(w, origin)
  /\ w.sessions[origin].activeStreams < w.sessions[origin].maxConcurrentStreams

incrementActiveStreams(w, origin) ==
  IF origin \in DOMAIN w.sessions
  THEN [w EXCEPT !.sessions[origin].activeStreams = @ + 1]
  ELSE w

\* decrementActiveStreams without the test for a positive counter
decrementActiveStreams_unguarded(w, origin) ==
  IF origin \in DOMAIN w.sessions
  THEN [w EXCEPT !.sessions[origin].activeStreams = @ - 1]
  ELSE w

decrementActiveStreams(w, origin) ==
  IF origin \in DOMAIN w.sessions /\ w.sessions[origin].activeStreams > 0
  THEN [w EXCEPT !.sessions[origin].activeStreams = @ - 1]
  ELSE w

getAvailableSession(w, origin, auth) ==
  LET w0 == [w EXCEPT !.auth = auth] IN
  IF canAcceptStream(w0, origin)
  THEN [Note(w0, "available") EXCEPT !.sessions[origin].lastUsed = w.now,
                                     !.ret = w.sessions[origin].sid]
  ELSE IF Cardinality(DOMAIN w.sessions) < w.maxSessions \/ origin \notin DOMAIN w.sessions
       THEN getSession(w0, origin, auth)
       ELSE [Note(w0, "null") EXCEPT !.ret = 0]

\* close() that closes the handles and leaves the map as it is
poolClose_keepsEntries(w) ==
  closeSessions(w, {w.sessions[o].sid : o \in DOMAIN w.sessions})

poolClose(w) ==
  [closeSessions(w, {w.sessions[o].sid : o \in DOMAIN w.sessions})
     EXCEPT !.sessions = EmptyMap, !.order = <<>>]

hasSession(w, origin) == Healthy(w, origin)

-----------------------------------------------------------------------------
(* RequestQueue *)

headersSent(w, r) == w.reqs[r].res # "none"

\* res.writeHead(status) / res.end(body) on the response of request r
respond(w, r, status) ==
  [w EXCEPT !.reqs[r].res = status, !.reqs[r].writes = @ + 1]

\* enqueue with the bound tested one too late
enqueue_offByOne(w, origin, r) ==
  IF w.totalQueued > w.maxQueueSize
  THEN [Note(w, "qfull") EXCEPT !.ret = 0]
  ELSE LET e == Len(w.entries) + 1
           originQueue == IF origin \in DOMAIN w.queue THEN w.queue[origin] ELSE <<>>
       IN [Note(w, "queued") EXCEPT
                    !.entries = Append(@, [req |-> r, origin |-> origin, timer |-> TRUE,
                                           done |-> <<>>, cb |-> 0, seq |-> 0]),
                    !.queue = MapSet(@, origin, Append(originQueue, e)),
                    !.totalQueued = @ + 1,
                    !.ret = 1]

enqueue(w, origin, r) ==
  IF w.totalQueued >= w.maxQueueSize
  THEN [Note(w, "qfull") EXCEPT !.ret = 0]
  ELSE LET e == Len(w.entries) + 1
           originQueue == IF origin \in DOMAIN w.queue THEN w.queue[origin] ELSE <<>>
       IN [Note(w, "queued") EXCEPT
                    !.entries = Append(@, [req |-> r, origin |-> origin, timer |-> TRUE,
                                           done |-> <<>>, cb |-> 0, seq |-> 0]),
                    !.queue = MapSet(@, origin, Append(originQueue, e)),
                    !.totalQueued = @ + 1,
                    !.ret = 1]

\* how many entries have been dequeued so far (dequeue order, kept for the record)
dequeuedSoFar(w) == Cardinality({e \in 1..Len(w.entries) : w.entries[e].seq > 0})

\* dequeue that leaves the entry's timer running
dequeue_keepTimer(w, origin) ==
  IF origin \notin DOMAIN w.queue \/ Len(w.queue[origin]) = 0
  THEN [w EXCEPT !.ret = 0]
  ELSE LET e == Head(w.queue[origin])
           rest == Tail(w.queue[origin])
       IN [w EXCEPT !.entries[e].done = Append(@, "dequeue"),
                    !.entries[e].seq = dequeuedSoFar(w) + 1,
                    !.queue = IF Len(rest) = 0 THEN MapDelete(@, origin)
                              ELSE MapSet(@, origin, rest),
                    !.totalQueued = @ - 1,
                    !.ret = e]

\* dequeue that pops the newest entry (pop() for shift())
dequeue_lifo(w, origin) ==
  IF origin \notin DOMAIN w.queue \/ Len(w.queue[origin]) = 0
  THEN [w EXCEPT !.ret = 0]
  ELSE LET n == Len(w.queue[origin])
           e == w.queue[origin][n]
           rest == SubSeq(w.queue[origin], 1, n - 1)
       IN [w EXCEPT !.entries[e].timer = FALSE,
                    !.entries[e].done = Append(@, "dequeue"),
                    !.entries[e].seq = dequeuedSoFar(w) + 1,
                    !.queue = IF Len(rest) = 0 THEN MapDelete(@, origin)
                              ELSE MapSet(@, origin, rest),
                    !.totalQueued = @ - 1,
                    !.ret = e]

\* dequeue without the clean-up of an origin's empty list
dequeue_keepsEmptyList(w, origin) ==
  IF origin \notin DOMAIN w.queue \/ Len(w.queue[origin]) = 0
  THEN [w EXCEPT !.ret = 0]
  ELSE LET e == Head(w.queue[origin])
           rest == Tail(w.queue[origin])
       IN [w EXCEPT !.entries[e].timer = FALSE,
                    !.entries[e].done = Append(@, "dequeue"),
                    !.entries[e].seq = dequeuedSoFar(w) + 1,
                    !.queue = MapSet(@, origin, rest),
                    !.totalQueued = @ - 1,
                    !.ret = e]

dequeue(w, origin) ==
  IF origin \notin DOMAIN w.queue \/ Len(w.queue[origin]) = 0
  THEN [w EXCEPT !.ret = 0]
  ELSE LET e == Head(w.queue[origin])
           rest == Tail(w.queue[origin])
       IN [w EXCEPT !.entries[e].timer = FALSE,
                    !.entries[e].done = Append(@, "dequeue"),
                    !.entries[e].seq = dequeuedSoFar(w) + 1,
                    !.queue = IF Len(rest) = 0 THEN MapDelete(@, origin)
                              ELSE MapSet(@, origin, rest),
                    !.totalQueued = @ - 1,
                    !.ret = e]

\* removeRequest that finds nothing to remove
removeRequest_keeps(w, origin, e) == w

removeRequest(w, origin, e) ==
  IF origin \notin DOMAIN w.queue THEN w
  ELSE IF \E i \in 1..Len(w.queue[origin]) : w.queue[origin][i] = e
       THEN LET rest == SeqRemove(w.queue[origin], e)
            IN [w EXCEPT !.queue = IF Len(rest) = 0 THEN MapDelete(@, origin)
                                   ELSE MapSet(@, origin, rest),
                         !.totalQueued = @ - 1]
       ELSE w

\* the setTimeout callback of enqueue
queueTimeoutCallback(w, e) ==
  LET r == w.entries[e].req
      w1 == removeRequest(w, w.entries[e].origin, e)
      w2 == IF ~headersSent(w1, r)
            THEN respond(w1, r, "503 queue timeout") ELSE w1
  IN [w2 EXCEPT !.entries[e].timer = FALSE, !.entries[e].done = Append(@, "timeout")]

\* the loop of clear without clearTimeout
RECURSIVE clearEach_keepTimers(_, _)
clearEach_keepTimers(w, es) ==
  IF es = {} THEN w
  ELSE LET e == CHOOSE x \in es : TRUE
           r == w.entries[e].req
           w1 == [w EXCEPT !.entries[e].done = Append(@, "clear")]
           w2 == IF ~headersSent(w1, r)
                 THEN respond(w1, r, "503 shutting down") ELSE w1
       IN clearEach_keepTimers(w2, es \ {e})

RECURSIVE clearEach(_, _)
clearEach(w, es) ==
  IF es = {} THEN w
  ELSE LET e == CHOOSE x \in es : TRUE
           r == w.entries[e].req
           w1 == [w EXCEPT !.entries[e].timer = FALSE,
                           !.entries[e].done = Append(@, "clear")]
           w2 == IF ~headersSent(w1, r)
                 THEN respond(w1, r, "503 shutting down") ELSE w1
       IN clearEach(w2, es \ {e})

queuedIn(q) == UNION {{q[o][i] : i \in 1..Len(q[o])} : o \in DOMAIN q}

clear(w) ==
  [clearEach(w, queuedIn(w.queue)) EXCEPT !.queue = EmptyMap, !.totalQueued = 0]

getQueueDepth(w, origin) ==
  IF origin \in DOMAIN w.queue THEN Len(w.queue[origin]) ELSE 0

-----------------------------------------------------------------------------
(* Forwarding engine, pooled path *)

\* options.proxyTimeout || options.timeout || 120000
timeoutOf(opt) ==
  IF ~Falsy(opt.proxyTimeout) THEN opt.proxyTimeout
  ELSE IF ~Falsy(opt.timeout) THEN opt.timeout
  ELSE DefaultTimeout

\* processProxiedRequest without the ERR_HTTP2_OUT_OF_STREAMS case: every
\* failure of session.request() is answered 502
processProxiedRequest_noStreamLimitCase(w, r, origin, sid, outcome) ==
  LET w0 == [w EXCEPT !.cur = r]
      w1 == IF sid = 0 THEN getSession(w0, origin, w.reqs[r].opt.auth)
            ELSE [w0 EXCEPT !.ret = sid]
      w2 == incrementActiveStreams(w1, origin)
  IN IF w1.err # "none"
     THEN respond([w1 EXCEPT !.err = "none"], r, "502 no session")
     ELSE IF outcome = "ok"
     THEN Note([w2 EXCEPT !.streams = Append(@,
                  [req |-> r, origin |-> origin, sid |-> w1.ret, timer |-> TRUE,
                   timeout |-> timeoutOf(w.reqs[r].opt),
                   st |-> "open", responded |-> FALSE,
                   decs |-> 0, drains |-> 0])], "opened")
     ELSE respond(IF outcome = "oos" THEN Note(decrementActiveStreams(w2, origin), "oos")
                  ELSE decrementActiveStreams(w2, origin), r, "502 stream create")

\* processProxiedRequest(req, res, options, targetUrl, origin, startTime, session?)
\* sid = 0 stands for the call without a session (a resumed request)
processProxiedRequest(w, r, origin, sid, outcome) ==
  LET w0 == [w EXCEPT !.cur = r]
      w1 == IF sid = 0 THEN getSession(w0, origin, w.reqs[r].opt.auth)
            ELSE [w0 EXCEPT !.ret = sid]
      s  == w1.ret
      w2 == incrementActiveStreams(w1, origin)
  IN IF w1.err # "none"
     THEN respond([w1 EXCEPT !.err = "none"], r, "502 no session")
     ELSE IF outcome = "ok"
     THEN Note([w2 EXCEPT !.streams = Append(@,
                  [req |-> r, origin |-> origin, sid |-> s, timer |-> TRUE,
                   timeout |-> timeoutOf(w.reqs[r].opt),
                   st |-> "open", responded |-> FALSE,
                   decs |-> 0, drains |-> 0])], "opened")
     ELSE LET w3 == decrementActiveStreams(w2, origin) IN
          IF outcome = "oos"
          THEN LET w4 == enqueue(Note(w3, "oos"), origin, r) IN
               IF w4.ret = 0
               THEN respond(w4, r, "503 queue full")
               ELSE w4
          ELSE respond(w3, r, "502 stream create")

\* createAndHandleStream, the tail of proxyHttp2Request; what getSession
\* throws is not caught here
createAndHandleStream(w, r, origin, outcome) ==
  LET w1 == getAvailableSession([w EXCEPT !.cur = r], origin, w.reqs[r].opt.auth) IN
  IF w1.err # "none" THEN w1
  ELSE IF w1.ret = 0
  THEN LET w2 == enqueue(w1, origin, r) IN
       IF w2.ret = 0
       THEN respond(w2, r, "503 queue full")
       ELSE w2
  ELSE processProxiedRequest(w1, r, origin, w1.ret, outcome)

\* const nextRequest = requestQueue.dequeue(origin); if (nextRequest) nextRequest.callback()
processNext(w, origin, outcome) ==
  LET w1 == dequeue(w, origin) IN
  IF w1.ret = 0 THEN w1
  ELSE LET e == w1.ret
           w2 == Note([w1 EXCEPT !.entries[e].cb = @ + 1], "resumed")
       IN processProxiedRequest(w2, w2.entries[e].req, origin, 0, outcome)

\* connectionPool.decrementActiveStreams(origin) in a handler of stream s;
\* decs counts the times a handler of s lowered the counter
streamDecrement(w, s) ==
  LET w1 == decrementActiveStreams(w, w.streams[s].origin) IN
  [w1 EXCEPT !.streams[s].decs = IF w1.sessions # w.sessions THEN @ + 1 ELSE @]

\* the queue drain in a handler of stream s; drains counts the queued
\* requests a handler of s resumed
streamDrain(w, s, outcome) ==
  LET w1 == processNext(w, w.streams[s].origin, outcome) IN
  [w1 EXCEPT !.streams[s].drains = IF "resumed" \in w1.ev THEN @ + 1 ELSE @]

\* the error handler without the queue drain
streamOnError_noDrain(w, s, outcome) ==
  LET r == w.streams[s].req
      w1 == [w EXCEPT !.streams[s].timer = FALSE, !.streams[s].st = "closing"]
      w2 == IF ~headersSent(w1, r) THEN respond(w1, r, "502 bad gateway") ELSE w1
  IN streamDecrement(w2, s)

\* the error handler without the test of res.headersSent
streamOnError_alwaysWrites(w, s, outcome) ==
  LET r == w.streams[s].req
      w1 == [w EXCEPT !.streams[s].timer = FALSE, !.streams[s].st = "closing"]
      w2 == respond(w1, r, "502 bad gateway")
  IN streamDrain(streamDecrement(w2, s), s, outcome)

\* stream.on("error")
streamOnError(w, s, outcome) ==
  LET r == w.streams[s].req
      w1 == [w EXCEPT !.streams[s].timer = FALSE, !.streams[s].st = "closing"]
      w2 == IF ~headersSent(w1, r) THEN respond(w1, r, "502 bad gateway") ELSE w1
  IN streamDrain(streamDecrement(w2, s), s, outcome)

\* the response handler without clearTimeout(timeoutHandle)
streamOnResponse_keepTimer(w, s) ==
  respond([w EXCEPT !.streams[s].responded = TRUE], w.streams[s].req, "upstream")

\* stream.on("response"), without selfHandleResponse
streamOnResponse(w, s) ==
  respond([w EXCEPT !.streams[s].timer = FALSE, !.streams[s].responded = TRUE],
          w.streams[s].req, "upstream")

\* stream.on("close")
streamOnClose(w, s, outcome) ==
  LET w1 == [w EXCEPT !.streams[s].timer = FALSE, !.streams[s].st = "closed"]
  IN streamDrain(streamDecrement(w1, s), s, outcome)

\* the per-request setTimeout callback
streamTimeoutCallback(w, s) ==
  LET r == w.streams[s].req
      w1 == [w EXCEPT !.streams[s].timer = FALSE,
                      !.streams[s].st = IF @ = "open" THEN "closing" ELSE @]
  IN IF ~headersSent(w1, r) THEN respond(w1, r, "504 gateway timeout") ELSE w1

\* the shutdown handler without http2SupportMap.clear()
shutdown_keepsCache(w) == poolClose(clear(w))

\* requestQueue.clear(); connectionPool.close(); http2SupportMap.clear()
shutdown(w) == [poolClose(clear(w)) EXCEPT !.http2SupportMap = EmptyMap]

-----------------------------------------------------------------------------
(* Outbound headers: createHttp2Headers and the filter of proxyHttp1Request *)

\* names that start with ":" (an inbound HTTP/2 request carries them)
PseudoNames == {":method", ":scheme", ":authority", ":path"}

\* the inbound header names told apart (node delivers them in lower case)
HeaderNames ==
  {":path", "connection", "upgrade", "keep-alive", "transfer-encoding",
   "proxy-connection", "te", "trailer", "host", "sec-websocket-key"}

\* header values: empty, the word websocket, anything else
HeaderValues == {"", "websocket", "v"}

\* req.headers: at most MaxHeaders headers
InboundHeaders ==
  UNION {[names -> HeaderValues] :
           names \in {n \in SUBSET HeaderNames : Cardinality(n) <= MaxHeaders}}

\* the route options the two header builders read
HeaderOptions == [changeOrigin : BOOLEAN, xfwd : BOOLEAN, auth : BOOLEAN, ws : BOOLEAN]

\* if (options.xfwd) { ... }: the four x-forwarded-* headers
xForwarded(headers, req) ==
  [k \in {"x-forwarded-for", "x-forwarded-proto", "x-forwarded-host", "x-forwarded-port"} |->
     IF k = "x-forwarded-host"
     THEN (IF "host" \in DOMAIN req THEN req["host"] ELSE "")
     ELSE "proxy"] @@ headers

\* if (options.auth && !headers.authorization) headers.authorization = ...
authorization(headers) ==
  IF "authorization" \in DOMAIN headers /\ headers["authorization"] # ""
  THEN headers
  ELSE [k \in {"authorization"} |-> "proxy"] @@ headers

\* createHttp2Headers(req, target, options), and the :path header that
\* processProxiedRequest adds; "proxy" is a value the proxy wrote itself
createHttp2Headers(req, options) ==
  LET forbiddenHeaders == {"connection", "upgrade", "keep-alive", "transfer-encoding",
                           "proxy-connection"}
      copied == {k \in DOMAIN req :
                   /\ k \notin PseudoNames
                   /\ ~(k = "host" /\ options.changeOrigin)
                   /\ k \notin forbiddenHeaders}
      h0 == [k \in copied |-> req[k]] @@
            [k \in {":method", ":scheme", ":authority"} |-> "proxy"]
      h1 == IF options.changeOrigin THEN [k \in {"host"} |-> "proxy"] @@ h0 ELSE h0
      h2 == IF options.xfwd THEN xForwarded(h1, req) ELSE h1
      h3 == IF options.auth THEN authorization(h2) ELSE h2
  IN [k \in {":path"} |-> "proxy"] @@ h3

\* the headers of proxyReqOptions in proxyHttp1Request
http1Headers(req, options) ==
  LET isWebSocket ==
        options.ws \/ ("upgrade" \in DOMAIN req /\ req["upgrade"] = "websocket")
      forbiddenHeaders == {"keep-alive", "transfer-encoding", "proxy-connection", "te",
                           "trailer"}
                          \cup (IF ~isWebSocket THEN {"connection", "upgrade"} ELSE {})
      kept == {k \in DOMAIN req :
                 k \notin PseudoNames /\ k \notin forbiddenHeaders /\ req[k] # ""}
      h0 == [k \in kept |-> req[k]]
      h1 == IF options.changeOrigin THEN [k \in {"host"} |-> "proxy"] @@ h0 ELSE h0
      h2 == IF options.xfwd THEN xForwarded(h1, req) ELSE h1
  IN IF options.auth THEN authorization(h2) ELSE h2

-----------------------------------------------------------------------------
(* rewriteCookie *)

\* A set-cookie value is a sequence of pieces of text: "=", ";", " ", the
\* words Domain and Path in two spellings, and other words.  A cookie name
\* may end in the text "domain" or "path" (xdomain, xpath).
CookieNames == {<<"sid">>, <<"x", "domain">>, <<"x", "path">>}

CookieAttributes ==
  {<<"Domain", "=", "old.com">>, <<"domain", "=", "old.com">>,
   <<"Domain", "=", "other.com">>, <<"Path", "=", "/old">>, <<"Path", "=", "/other">>,
   <<"Secure">>}

\* cookieDomainRewrite and cookiePathRewrite: false, a string, or a map
DomainRules ==
  {[kind |-> "false"], [kind |-> "string", to |-> "new.com"],
   [kind |-> "map", from |-> "old.com", to |-> "new.com"]}

PathRules ==
  {[kind |-> "false"], [kind |-> "string", to |-> "/"],
   [kind |-> "map", from |-> "/old", to |-> "/"]}

\* the text of a cookie with the given name and attributes
RECURSIVE joinAttributes(_)
joinAttributes(attrs) ==
  IF attrs = <<>> THEN <<>>
  ELSE <<";", " ">> \o Head(attrs) \o joinAttributes(Tail(attrs))

cookieText(name, attrs) == name \o <<"=", "v">> \o joinAttributes(attrs)

\* /<word>=([^;]+)/i.exec(cookie): where the first match starts and ends
\* (from = 0: no match)
regexExec(cookie, word) ==
  LET starts == {i \in 1..Len(cookie) :
                   /\ toLowerCase(cookie[i]) = word
                   /\ i + 2 <= Len(cookie)
                   /\ cookie[i + 1] = "="
                   /\ cookie[i + 2] # ";"}
  IN IF starts = {} THEN [from |-> 0, to |-> 0]
     ELSE LET i == CHOOSE x \in starts : \A y \in starts : x <= y
              j == CHOOSE x \in (i + 2)..Len(cookie) :
                     /\ \A k \in (i + 2)..x : cookie[k] # ";"
                     /\ x = Len(cookie) \/ cookie[x + 1] = ";"
          IN [from |-> i, to |-> j]

\* String.prototype.replace(pattern, replacement) with a string pattern
replaceFirst(text, pattern, replacement) ==
  LET n == Len(pattern)
      at == {k \in 1..(Len(text) - n + 1) : SubSeq(text, k, k + n - 1) = pattern}
  IN IF at = {} THEN text
     ELSE LET k == CHOOSE x \in at : \A y \in at : x <= y
          IN SubSeq(text, 1, k - 1) \o replacement \o SubSeq(text, k + n, Len(text))

\* one of the two rewriting blocks of rewriteCookie
rewriteAttribute(cookie, rewritten, rule, word, attribute) ==
  IF rule.kind = "false" THEN rewritten
  ELSE LET m == regexExec(cookie, word) IN
       IF m.from = 0 THEN rewritten
       ELSE LET old == SubSeq(cookie, m.from + 2, m.to)
                found == rule.kind = "string" \/ old = <<rule.from>>
            IN IF found
               THEN replaceFirst(rewritten, SubSeq(cookie, m.from, m.to),
                                 <<attribute, "=", rule.to>>)
               ELSE rewritten

rewriteCookie(cookie, domainRewrite, pathRewrite) ==
  IF domainRewrite.kind = "false" /\ pathRewrite.kind = "false" THEN cookie
  ELSE LET rewritten == rewriteAttribute(cookie, cookie, domainRewrite, "domain", "Domain")
       IN rewriteAttribute(cookie, rewritten, pathRewrite, "path", "Path")

-----------------------------------------------------------------------------
(* Protocol selection: proxyHttp2Request, supportsHttp2, proxyHttp1Request *)

\* handleBypass where a truthy result that is not a string continues the pipeline
handleBypass_truthyContinues(w, r) ==
  LET b == w.reqs[r].opt.bypass IN
  IF b = "string"
  THEN [w EXCEPT !.reqs[r].urlRewritten = TRUE, !.reqs[r].nexts = @ + 1, !.ret = 1]
  ELSE [w EXCEPT !.ret = 0]

\* handleBypass: ret = 1 when the request is handed to next()
handleBypass(w, r) ==
  LET b == w.reqs[r].opt.bypass IN
  IF b = "string"
  THEN [w EXCEPT !.reqs[r].urlRewritten = TRUE, !.reqs[r].nexts = @ + 1, !.ret = 1]
  ELSE IF b = "true"
  THEN [w EXCEPT !.reqs[r].nexts = @ + 1, !.ret = 1]
  ELSE [w EXCEPT !.ret = 0]

\* getTargetUrl that returns whatever the router returns
getTargetUrl_unchecked(w, r) ==
  IF w.reqs[r].opt.router = "none" THEN [w EXCEPT !.ret = 1]
  ELSE [w EXCEPT !.reqs[r].routerCalls = @ + 1, !.ret = 1]

\* getTargetUrl: ret = 0 when it throws (the router's value is not a URL)
getTargetUrl(w, r) ==
  LET rt == w.reqs[r].opt.router IN
  IF rt = "none" THEN [w EXCEPT !.ret = 1]
  ELSE [w EXCEPT !.reqs[r].routerCalls = @ + 1, !.ret = IF rt = "ok" THEN 1 ELSE 0]

\* proxyHttp1Request: the direct path, one upstream http(s).request
proxyHttp1Request(w, r) ==
  LET opt == w.reqs[r].opt
      timed == ~Falsy(opt.timeout) \/ ~Falsy(opt.proxyTimeout)
      w1 == getTargetUrl([w EXCEPT !.reqs[r].path = "h1"], r)
  IN IF w1.ret = 0
     THEN respond(w1, r, "500 invalid target")
     ELSE [w1 EXCEPT !.h1reqs = Append(@,
              [req |-> r, st |-> "open", timer |-> timed,
               timeout |-> IF timed THEN timeoutOf(opt) ELSE 0])]

\* the callback of http.request: res.writeHead(proxyRes.statusCode, ...)
h1OnResponse(w, h) ==
  respond([w EXCEPT !.h1reqs[h].st = "responded"], w.h1reqs[h].req, "upstream")

\* proxyReq.on("error")
h1OnError(w, h) ==
  LET r == w.h1reqs[h].req
      w1 == [w EXCEPT !.h1reqs[h].st = "errored", !.h1reqs[h].timer = FALSE]
  IN IF ~headersSent(w1, r) THEN respond(w1, r, "502 bad gateway") ELSE w1

\* the proxyReq.setTimeout callback: proxyReq.destroy()
h1TimeoutCallback(w, h) ==
  LET r == w.h1reqs[h].req
      w1 == [w EXCEPT !.h1reqs[h].st = "destroyed", !.h1reqs[h].timer = FALSE]
  IN IF ~headersSent(w1, r) THEN respond(w1, r, "504 gateway timeout") ELSE w1

\* the pooled branch of proxyHttp2Request
pooledPath(w, r, outcome) ==
  createAndHandleStream([w EXCEPT !.reqs[r].path = "h2"], r, w.reqs[r].origin, outcome)

\* proxyHttp2Request after "await supportsHttp2(origin, ...)"
afterSupportsHttp2(w, r, useHttp2, outcome) ==
  IF ~useHttp2 THEN proxyHttp1Request(w, r) ELSE pooledPath(w, r, outcome)

\* supportsHttp2 on a cache miss: connect(origin) and the 2 s timer
startProbe(w, r) ==
  Note([w EXCEPT !.reqs[r].path = "probe",
                 !.probes = Append(@, [origin |-> w.reqs[r].origin, req |-> r,
                                       timer |-> TRUE, connected |-> FALSE,
                                       errored |-> FALSE, resolved |-> FALSE])],
       "probe")

\* proxyHttp2Request with auto-detection tested before forceHttp1
proxyHttp2Request_autoFirst(w, r, outcome) ==
  LET opt == w.reqs[r].opt
      o == w.reqs[r].origin
      w1 == handleBypass([w EXCEPT !.cur = r], r)
  IN IF w1.ret = 1 THEN [w1 EXCEPT !.reqs[r].path = "bypass"]
     ELSE IF opt.ws \/ opt.isWebSocketRequest THEN proxyHttp1Request(w1, r)
     ELSE LET w2 == getTargetUrl(w1, r) IN
          IF w2.ret = 0
          THEN respond([w2 EXCEPT !.reqs[r].path = "failed"], r, "500 invalid target")
          ELSE IF opt.autoDetectProtocol
          THEN IF o \in DOMAIN w2.http2SupportMap
               THEN afterSupportsHttp2(Note(w2, "cached"), r, w2.http2SupportMap[o], outcome)
               ELSE startProbe(w2, r)
          ELSE IF opt.forceHttp1 THEN proxyHttp1Request(w2, r)
          ELSE pooledPath(w2, r, outcome)

\* proxyHttp2Request without the test of options.ws
proxyHttp2Request_noWsTest(w, r, outcome) ==
  LET opt == w.reqs[r].opt
      o == w.reqs[r].origin
      w1 == handleBypass([w EXCEPT !.cur = r], r)
  IN IF w1.ret = 1 THEN [w1 EXCEPT !.reqs[r].path = "bypass"]
     ELSE IF opt.isWebSocketRequest THEN proxyHttp1Request(w1, r)
     ELSE LET w2 == getTargetUrl(w1, r) IN
          IF w2.ret = 0
          THEN respond([w2 EXCEPT !.reqs[r].path = "failed"], r, "500 invalid target")
          ELSE IF opt.forceHttp1 THEN proxyHttp1Request(w2, r)
          ELSE IF opt.autoDetectProtocol
          THEN IF o \in DOMAIN w2.http2SupportMap
               THEN afterSupportsHttp2(Note(w2, "cached"), r, w2.http2SupportMap[o], outcome)
               ELSE startProbe(w2, r)
          ELSE pooledPath(w2, r, outcome)

\* proxyHttp2Request, up to the first wait (the probe of supportsHttp2)
proxyHttp2Request(w, r, outcome) ==
  LET opt == w.reqs[r].opt
      o == w.reqs[r].origin
      w1 == handleBypass([w EXCEPT !.cur = r], r)
  IN IF w1.ret = 1 THEN [w1 EXCEPT !.reqs[r].path = "bypass"]
     ELSE IF opt.ws THEN proxyHttp1Request(w1, r)
     ELSE IF opt.isWebSocketRequest THEN proxyHttp1Request(w1, r)
     ELSE LET w2 == getTargetUrl(w1, r) IN
          IF w2.ret = 0
          THEN respond([w2 EXCEPT !.reqs[r].path = "failed"], r, "500 invalid target")
          ELSE IF opt.forceHttp1 THEN proxyHttp1Request(w2, r)
          ELSE IF opt.autoDetectProtocol
          THEN IF o \in DOMAIN w2.http2SupportMap
               THEN afterSupportsHttp2(Note(w2, "cached"), r, w2.http2SupportMap[o], outcome)
               ELSE startProbe(w2, r)
          ELSE pooledPath(w2, r, outcome)

\* the catch around "await proxyHttp2Request(req, res, opts, next)" in the
\* middleware
middlewareCatch(w, r) ==
  IF w.err = "none" THEN w
  ELSE LET w1 == [w EXCEPT !.err = "none"] IN
       IF ~headersSent(w1, r) THEN respond(w1, r, "500 internal error") ELSE w1

\* resolve(useHttp2) of the promise of supportsHttp2: the first call resumes
\* proxyHttp2Request inside the middleware's try, a later one does nothing
resolve(w, p, useHttp2, outcome) ==
  IF w.probes[p].resolved THEN w
  ELSE middlewareCatch(
         afterSupportsHttp2([w EXCEPT !.probes[p].resolved = TRUE, !.cur = w.probes[p].req],
                            w.probes[p].req, useHttp2, outcome),
         w.probes[p].req)

\* a probe whose result is not stored
probeOnConnect_noCache(w, p, outcome) ==
  resolve([w EXCEPT !.probes[p].timer = FALSE, !.probes[p].connected = TRUE],
          p, TRUE, outcome)

\* testSession.on("connect")
probeOnConnect(w, p, outcome) ==
  resolve([w EXCEPT !.probes[p].timer = FALSE, !.probes[p].connected = TRUE,
                    !.http2SupportMap = MapSet(@, w.probes[p].origin, TRUE)],
          p, TRUE, outcome)

\* the 2 s timer of supportsHttp2
probeTimeoutCallback(w, p, outcome) ==
  resolve([w EXCEPT !.probes[p].timer = FALSE,
                    !.http2SupportMap = MapSet(@, w.probes[p].origin, FALSE)],
          p, FALSE, outcome)

\* testSession.on("error")
probeOnError(w, p, outcome) ==
  resolve([w EXCEPT !.probes[p].timer = FALSE, !.probes[p].errored = TRUE,
                    !.http2SupportMap = MapSet(@, w.probes[p].origin, FALSE)],
          p, FALSE, outcome)

-----------------------------------------------------------------------------
(* handleWebSocketUpgrade: the client socket and the upstream socket *)

\* a net.Socket: ended and destroyed are what the proxy has called on it, gone
\* says that it has closed or failed, pend are its events still to be emitted
NewSocket == [ended |-> FALSE, destroyed |-> FALSE, gone |-> FALSE, pend |-> <<>>]

\* socket.end()
socketEnd(s) == IF s.destroyed THEN s ELSE [s EXCEPT !.ended = TRUE]

\* socket.destroy(): 'close' follows unless the socket has closed already
socketDestroy(s) ==
  IF s.destroyed THEN s
  ELSE [s EXCEPT !.destroyed = TRUE, !.gone = TRUE,
                 !.pend = IF s.gone THEN @ ELSE Append(@, "close")]

\* handleWebSocketUpgrade after "await getTargetUrl": connect() to the target
\* and the registration of the eight handlers
wire(w, t) ==
  [w EXCEPT !.tunnels[t].phase = "wired", !.tunnels[t].upstream = NewSocket]

\* handleWebSocketUpgrade up to its first wait: a static target is there in
\* the same turn, a router function is awaited
handleWebSocketUpgrade(w, route, opts) ==
  LET t == Len(w.tunnels) + 1
      w1 == [w EXCEPT !.tunnels = Append(@,
               [route |-> route, opt |-> opts, phase |-> "resolving", connected |-> FALSE,
                client |-> NewSocket, upstream |-> NewSocket])]
  IN IF opts.router = "none" THEN wire(w1, t) ELSE w1

\* the router's promise settles: 500 on a value that is no URL
routerSettled(w, t) ==
  IF w.tunnels[t].opt.router = "bad"
  THEN [w EXCEPT !.tunnels[t].phase = "refused", !.tunnels[t].client = socketEnd(@)]
  ELSE wire(w, t)

\* proxySocket.on("connect"): the upgrade request is written; a write on a
\* socket that end() was called on fails, and the failure destroys the socket
proxySocketOnConnect(w, t) ==
  IF w.tunnels[t].upstream.ended
  THEN [w EXCEPT !.tunnels[t].upstream =
                    [@ EXCEPT !.destroyed = TRUE, !.gone = TRUE, !.pend = <<"error", "close">>]]
  ELSE [w EXCEPT !.tunnels[t].connected = TRUE]

\* proxySocket.on("error") and proxySocket.on("close")
proxySocketOn(w, t, event) ==
  IF event = "error"
  THEN [w EXCEPT !.tunnels[t].client = socketDestroy(@)]
  ELSE [w EXCEPT !.tunnels[t].client = socketEnd(@)]

\* socket.on("error") and socket.on("close")
socketOn(w, t, event) ==
  IF event = "error"
  THEN [w EXCEPT !.tunnels[t].upstream = socketDestroy(@)]
  ELSE [w EXCEPT !.tunnels[t].upstream = socketEnd(@)]

-----------------------------------------------------------------------------
(* The plugin's objects: configResolved *)

\* new Http2ConnectionPool(logger, { maxSessions, sessionMaxAge, connectionTimeout }):
\* the constructor has the logger as its only parameter
Http2ConnectionPool(options) == [maxSessions |-> MaxSessions, maxAge |-> MaxAge]

\* new RequestQueue(logger, { maxQueueSize, queueTimeout })
RequestQueue(options) ==
  [maxQueueSize |-> IF Falsy(options.maxQueueSize) THEN EngineQueueSize
                    ELSE options.maxQueueSize]

-----------------------------------------------------------------------------
(* Session event handlers registered by getSession *)

\* session.once("connect")
sessionOnConnect(w, sid) == [w EXCEPT !.conns[sid].connTimer = FALSE]

\* the connectionTimeout callback: session.close()
connectionTimeoutCallback(w, sid) ==
  [closeSessions(w, {sid}) EXCEPT !.conns[sid].connTimer = FALSE]

\* session.on("remoteSettings")
sessionOnRemoteSettings(w, sid, n) ==
  LET o == w.conns[sid].origin IN
  IF o \in DOMAIN w.sessions
  THEN [w EXCEPT !.sessions[o].maxConcurrentStreams = n]
  ELSE w

\* session.on("error")
sessionOnError(w, sid) ==
  [sessionsDelete(w, w.conns[sid].origin)
     EXCEPT !.conns[sid].connTimer = FALSE, !.conns[sid].pend = "close",
            !.conns[sid].destroyed = TRUE]

\* session.on("close")
sessionOnClose(w, sid) ==
  [sessionsDelete(w, w.conns[sid].origin) EXCEPT !.conns = MapDelete(@, sid)]

-----------------------------------------------------------------------------
(* The state machine *)

\* no pure function has been applied
NoCall == [fn |-> "none"]

InitEngine ==
  /\ sessions = EmptyMap
  /\ order = <<>>
  /\ conns = EmptyMap
  /\ now = 0
  /\ queue = EmptyMap
  /\ totalQueued = 0
  /\ entries = <<>>
  /\ reqs = <<>>
  /\ streams = <<>>
  /\ http2SupportMap = EmptyMap
  /\ probes = <<>>
  /\ h1reqs = <<>>
  /\ last = [op |-> "init", o |-> "none", id |-> 0, ev |-> {}, r |-> 0,
             err |-> "none", auth |-> NoAuth]

\* the plugin loaded without options, before any request
InitObjects ==
  /\ InitEngine
  /\ tunnels = <<>>
  /\ pluginOptions = NoPluginOptions
  /\ input = NoCall
  /\ output = NoCall

\* the plugin's pool and queue (the sizes stand for the configured ones)
Init ==
  /\ InitObjects
  /\ maxSessions \in 1..MaxSessions
  /\ maxQueueSize = EngineQueueSize

\* a pool on its own
InitPool ==
  /\ InitObjects
  /\ maxSessions = MaxSessions
  /\ maxQueueSize = MaxQueueSize

\* the plugin loaded with options
InitPlugin ==
  /\ InitEngine
  /\ tunnels = <<>>
  /\ input = NoCall
  /\ output = NoCall
  /\ pluginOptions \in PluginOptionSets
  /\ maxSessions = Http2ConnectionPool(
                      [maxSessions |-> pluginOptions.maxSessions,
                       sessionMaxAge |-> pluginOptions.sessionMaxAge]).maxSessions
  /\ maxQueueSize = RequestQueue([maxQueueSize |-> pluginOptions.maxQueueSize]).maxQueueSize

\* the plugin with the pool's default limit
InitProtocol ==
  /\ InitObjects
  /\ maxSessions = MaxSessions
  /\ maxQueueSize = EngineQueueSize

\* the plugin with one upstream connection and room for two waiting requests
InitDrain ==
  /\ InitObjects
  /\ maxSessions = 1
  /\ maxQueueSize = 2

\* a queue on its own
InitQueue ==
  /\ InitObjects
  /\ maxSessions = MaxSessions
  /\ maxQueueSize = MaxQueueSize

WithinBounds(w) ==
  /\ Cardinality(DOMAIN w.conns) <= MaxConns
  /\ Len(w.entries) <= MaxEntries

Commit(w, op, o, id) ==
  /\ WithinBounds(w)
  /\ sessions' = w.sessions
  /\ order' = w.order
  /\ conns' = w.conns
  /\ now' = w.now
  /\ queue' = w.queue
  /\ totalQueued' = w.totalQueued
  /\ entries' = w.entries
  /\ reqs' = w.reqs
  /\ streams' = w.streams
  /\ http2SupportMap' = w.http2SupportMap
  /\ probes' = w.probes
  /\ h1reqs' = w.h1reqs
  /\ tunnels' = w.tunnels
  /\ UNCHANGED <<maxSessions, maxQueueSize, pluginOptions, input, output>>
  /\ last' = [op |-> op, o |-> o, id |-> id, ev |-> w.ev, r |-> w.cur,
              err |-> w.err, auth |-> w.auth]

\* the middleware of a route hands an inbound request to proxyHttp2Request
Arrive(n, o, route, outcome) ==
  /\ Len(reqs) < n
  /\ LET r == Len(reqs) + 1
         opts == normalizeProxyOptions(route, NoGlobalDefaults)
         w == [World EXCEPT !.reqs = Append(@, newRequest(o, route, opts))]
         atLimit == Healthy(w, o) /\ ~canAcceptStream(w, o)
     IN Commit(middlewareCatch(
                 proxyHttp2Request(IF atLimit THEN Note(w, "atLimit") ELSE w, r, outcome), r),
               "arrive", o, r)

\* a request on a plain route (a target and nothing else) with the given
\* upgrade headers
ArriveWithHeaders(n, o, headers, outcome) ==
  /\ Len(reqs) < n
  /\ LET r == Len(reqs) + 1
         route == DefaultOptions
         opts == [normalizeProxyOptions(route, NoGlobalDefaults)
                    EXCEPT !.isWebSocketRequest = isWebSocketRequest(headers)]
         w == [World EXCEPT !.reqs = Append(@, [newRequest(o, route, opts)
                                                  EXCEPT !.headers = headers])]
     IN Commit(middlewareCatch(proxyHttp2Request(w, r, outcome), r), "arrive", o, r)

ProbeConnect(p, outcome) ==
  /\ ~probes[p].connected
  /\ ~probes[p].errored
  /\ Commit(probeOnConnect(World, p, outcome), "probeConnect", probes[p].origin, p)

ProbeTimeout(p, outcome) ==
  /\ probes[p].timer
  /\ Commit(probeTimeoutCallback(World, p, outcome), "probeTimeout", probes[p].origin, p)

ProbeError(p, outcome) ==
  /\ ~probes[p].errored
  /\ Commit(probeOnError(World, p, outcome), "probeError", probes[p].origin, p)

H1Response(h) ==
  /\ h1reqs[h].st = "open"
  /\ Commit(h1OnResponse(World, h), "h1Response", reqs[h1reqs[h].req].origin, h)

H1Error(h) ==
  /\ h1reqs[h].st # "errored"
  /\ Commit(h1OnError(World, h), "h1Error", reqs[h1reqs[h].req].origin, h)

H1Timeout(h) ==
  /\ h1reqs[h].timer
  /\ h1reqs[h].st \in {"open", "responded"}
  /\ Commit(h1TimeoutCallback(World, h), "h1Timeout", reqs[h1reqs[h].req].origin, h)

StreamResponse(s) ==
  /\ streams[s].st = "open"
  /\ ~streams[s].responded
  /\ Commit(streamOnResponse(World, s), "response", streams[s].origin, s)

StreamError(s, outcome) ==
  /\ streams[s].st = "open"
  /\ Commit(streamOnError(World, s, outcome), "streamError", streams[s].origin, s)

StreamClose(s, outcome) ==
  /\ streams[s].st \in {"open", "closing"}
  /\ Commit(streamOnClose(World, s, outcome), "streamClose", streams[s].origin, s)

StreamTimeout(s) ==
  /\ streams[s].timer
  /\ Commit(streamTimeoutCallback(World, s), "streamTimeout", streams[s].origin, s)

QueueTimeout(e) ==
  /\ entries[e].timer
  /\ Commit(queueTimeoutCallback(World, e), "queueTimeout", entries[e].origin, e)

Shutdown ==
  /\ Commit(shutdown(World), "shutdown", "none", 0)

SessionConnect(sid) ==
  /\ conns[sid].connTimer
  /\ conns[sid].pend = "none"
  /\ ~conns[sid].closed
  /\ Commit(sessionOnConnect(World, sid), "connect", conns[sid].origin, 0)

ConnectionTimeout(sid) ==
  /\ conns[sid].connTimer
  /\ Commit(connectionTimeoutCallback(World, sid), "connectionTimeout", conns[sid].origin, 0)

RemoteSettings(sid, n) ==
  /\ conns[sid].pend = "none"
  /\ ~conns[sid].closed
  /\ Commit(sessionOnRemoteSettings(World, sid, n), "remoteSettings", conns[sid].origin, 0)

\* the connection breaks: node destroys the session and emits 'error', then 'close'
SessionError(sid) ==
  /\ conns[sid].pend \in {"none", "close"}
  /\ ~conns[sid].destroyed
  /\ Commit(sessionOnError(World, sid), "sessionError", conns[sid].origin, sid)

SessionClose(sid) ==
  /\ conns[sid].pend = "close"
  /\ Commit(sessionOnClose(World, sid), "sessionClose", conns[sid].origin, sid)

\* ---- WebSocket upgrades

\* server.httpServer.on("upgrade") for a request that matches a ws route
Upgrade(route) ==
  /\ route.ws
  /\ Len(tunnels) < MaxTunnels
  /\ Commit(handleWebSocketUpgrade(World, route,
                normalizeProxyOptions(route, globalDefaultsOf(pluginOptions))),
            "upgrade", "none", Len(tunnels) + 1)

RouterSettles(t) ==
  /\ t \in 1..Len(tunnels)
  /\ tunnels[t].phase = "resolving"
  /\ Commit(routerSettled(World, t), "routerSettled", "none", t)

\* the client goes away: 'close', or 'error' and then 'close'
ClientGone(t, how) ==
  /\ ~tunnels[t].client.gone
  /\ Commit([World EXCEPT !.tunnels[t].client.gone = TRUE,
                           !.tunnels[t].client.pend =
                              IF how = "error" THEN <<"error", "close">> ELSE <<"close">>],
            "clientGone", "none", t)

\* the upstream connection closes or fails
UpstreamGone(t, how) ==
  /\ tunnels[t].phase = "wired"
  /\ ~tunnels[t].upstream.gone
  /\ Commit([World EXCEPT !.tunnels[t].upstream.gone = TRUE,
                           !.tunnels[t].upstream.pend =
                              IF how = "error" THEN <<"error", "close">> ELSE <<"close">>],
            "upstreamGone", "none", t)

UpstreamConnect(t) ==
  /\ tunnels[t].phase = "wired"
  /\ ~tunnels[t].connected
  /\ ~tunnels[t].upstream.gone
  /\ Commit(proxySocketOnConnect(World, t), "upstreamConnect", "none", t)

\* the client socket emits its next event; before the handlers are registered
\* nobody listens
ClientEvent(t) ==
  /\ t \in 1..Len(tunnels)
  /\ tunnels[t].client.pend # <<>>
  /\ LET e == Head(tunnels[t].client.pend)
         w == [World EXCEPT !.tunnels[t].client.pend = Tail(@)]
     IN Commit(IF tunnels[t].phase = "wired" THEN socketOn(w, t, e) ELSE w,
               "clientEvent", "none", t)

\* the upstream socket emits its next event
UpstreamEvent(t) ==
  /\ t \in 1..Len(tunnels)
  /\ tunnels[t].upstream.pend # <<>>
  /\ LET e == Head(tunnels[t].upstream.pend)
         w == [World EXCEPT !.tunnels[t].upstream.pend = Tail(@)]
     IN Commit(proxySocketOn(w, t, e), "upstreamEvent", "none", t)

Tick ==
  /\ now < MaxTime
  /\ Commit([World EXCEPT !.now = @ + 1], "tick", "none", 0)

\* ---- the pool driven through its public methods (as its unit tests drive it)

PoolGetSession(o, auth) ==
  /\ LET w == getSession(World, o, auth)
     IN Commit(w, "getSession", o, w.ret)

PoolGetAvailableSession(o, auth) ==
  /\ LET w == getAvailableSession(World, o, auth)
     IN Commit(w, "getAvailableSession", o, w.ret)

\* "again" notes a close() that directly follows a close()
PoolClose ==
  /\ Commit(IF last.op = "close" THEN Note(poolClose(World), "again")
                                  ELSE poolClose(World),
            "close", "none", 0)

\* the stream accounting driven through its public methods
PoolIncrement(o) ==
  /\ o \in DOMAIN sessions
  /\ sessions[o].activeStreams < MaxActiveStreams
  /\ Commit(incrementActiveStreams(World, o), "increment", o, 0)

\* "floor" notes a decrement that finds the counter at 0, "absent" one that
\* finds no session for the origin
PoolDecrement(o) ==
  /\ Commit(Note(decrementActiveStreams(World, o),
                 IF o \notin DOMAIN sessions THEN "absent"
                 ELSE IF sessions[o].activeStreams = 0 THEN "floor" ELSE "counted"),
            "decrement", o, 0)

\* ---- the queue driven through its public methods

\* enqueue of a request whose response has not started: a new one, or one that
\* was resumed from the queue and has to wait again
QueueEnqueue(o, r) ==
  /\ \/ /\ r = Len(reqs) + 1
        /\ r <= MaxQueueReqs
        /\ Commit(enqueue([World EXCEPT !.reqs = Append(@, newRequest(o, DefaultOptions, DefaultOptions))], o, r),
                  "enqueue", o, r)
     \/ /\ r \in 1..Len(reqs)
        /\ reqs[r].origin = o
        /\ reqs[r].res = "none"
        /\ \A e \in queuedIn(queue) : entries[e].req # r
        /\ Commit(enqueue(World, o, r), "enqueue", o, r)

\* dequeue, and the caller runs the entry's callback
QueueDequeue(o) ==
  /\ LET w1 == dequeue(World, o)
     IN Commit(IF w1.ret = 0 THEN w1 ELSE [w1 EXCEPT !.entries[w1.ret].cb = @ + 1],
               "dequeue", o, w1.ret)

QueueClear ==
  /\ Commit(clear(World), "clear", "none", 0)

Next ==
  \/ \E o \in EngineOrigins, outcome \in RequestOutcomes :
        Arrive(MaxReqs, o, DefaultOptions, outcome)
  \/ \E s \in 1..Len(streams) : StreamResponse(s)
  \/ \E s \in 1..Len(streams), outcome \in RequestOutcomes : StreamError(s, outcome)
  \/ \E s \in 1..Len(streams), outcome \in RequestOutcomes : StreamClose(s, outcome)
  \/ \E s \in 1..Len(streams) : StreamTimeout(s)
  \/ \E e \in 1..Len(entries) : QueueTimeout(e)
  \/ Shutdown
  \/ \E sid \in DOMAIN conns, n \in 1..MaxPeerStreams : RemoteSettings(sid, n)
  \/ \E sid \in DOMAIN conns : SessionError(sid)
  \/ \E sid \in DOMAIN conns : SessionClose(sid)

Spec == Init /\ [][Next]_vars

NextPool ==
  \/ \E o \in Origins : PoolGetSession(o, NoAuth)
  \/ \E o \in Origins : PoolGetAvailableSession(o, NoAuth)
  \/ PoolClose
  \/ \E sid \in DOMAIN conns : SessionConnect(sid)
  \/ \E sid \in DOMAIN conns : ConnectionTimeout(sid)
  \/ \E sid \in DOMAIN conns : SessionError(sid)
  \/ \E sid \in DOMAIN conns : SessionClose(sid)
  \/ Tick

SpecPool == InitPool /\ [][NextPool]_vars

\* the pool's stream accounting and capacity-aware acquire
NextCapacity ==
  \/ \E o \in Origins : PoolGetAvailableSession(o, NoAuth)
  \/ \E o \in Origins : PoolIncrement(o)
  \/ \E o \in Origins : PoolDecrement(o)
  \/ \E sid \in DOMAIN conns : ConnectionTimeout(sid)
  \/ \E sid \in DOMAIN conns : SessionError(sid)
  \/ \E sid \in DOMAIN conns : SessionClose(sid)

SpecCapacity == InitPool /\ [][NextCapacity]_vars

NextQueue ==
  \/ \E o \in EngineOrigins, r \in 1..MaxQueueReqs : QueueEnqueue(o, r)
  \/ \E o \in EngineOrigins : QueueDequeue(o)
  \/ \E e \in 1..Len(entries) : QueueTimeout(e)
  \/ QueueClear

SpecQueue == InitQueue /\ [][NextQueue]_vars

\* the pool acquired with every auth string
NextAuth ==
  \/ \E o \in EngineOrigins, auth \in AuthValues : PoolGetSession(o, auth)
  \/ \E o \in EngineOrigins, auth \in AuthValues : PoolGetAvailableSession(o, auth)
  \/ PoolClose
  \/ \E sid \in DOMAIN conns : SessionClose(sid)

SpecAuth == InitPool /\ [][NextAuth]_vars

\* auth strings that fail in each of the two ways, and one that passes
FrameAuthValues == {NoAuth, <<"u">>, <<":", "u">>, <<"u", ":", "u">>}

\* the pool acquired with and without a valid auth string, from pools that
\* are full, hold expired sessions, or hold closed entries
NextAuthFrame ==
  \/ \E o \in Origins, auth \in FrameAuthValues : PoolGetSession(o, auth)
  \/ \E sid \in DOMAIN conns : ConnectionTimeout(sid)
  \/ \E sid \in DOMAIN conns : SessionClose(sid)
  \/ Tick

SpecAuthFrame == InitPool /\ [][NextAuthFrame]_vars

\* ---- WebSocket tunnels; node emits every event it has queued, and a
\* router's promise settles
NextTunnel ==
  \/ \E route \in {WithRest([PlainFlags EXCEPT !.ws = TRUE], 0, 0, "none", rt) :
                      rt \in {"none", "ok", "bad"}} : Upgrade(route)
  \/ \E t \in 1..Len(tunnels) : RouterSettles(t)
  \/ \E t \in 1..Len(tunnels), how \in {"close", "error"} : ClientGone(t, how)
  \/ \E t \in 1..Len(tunnels), how \in {"close", "error"} : UpstreamGone(t, how)
  \/ \E t \in 1..Len(tunnels) : UpstreamConnect(t)
  \/ \E t \in 1..Len(tunnels) : ClientEvent(t)
  \/ \E t \in 1..Len(tunnels) : UpstreamEvent(t)

SpecTunnel ==
  /\ InitProtocol
  /\ [][NextTunnel]_vars
  /\ \A t \in 1..MaxTunnels :
        WF_vars(RouterSettles(t)) /\ WF_vars(ClientEvent(t)) /\ WF_vars(UpstreamEvent(t))

\* ---- the plugin configured with options, its middleware and its upgrade handler
NextPlugin ==
  \/ \E o \in EngineOrigins, route \in PluginRoutes : Arrive(MaxReqs, o, route, "ok")
  \/ \E route \in PluginRoutes : Upgrade(route)
  \/ Tick

SpecPlugin == InitPlugin /\ [][NextPlugin]_vars

\* ---- the two header builders applied to an inbound header set

InitHeaders ==
  /\ InitEngine
  /\ maxSessions = MaxSessions
  /\ maxQueueSize = MaxQueueSize
  /\ tunnels = <<>>
  /\ pluginOptions = NoPluginOptions
  /\ input \in {[fn |-> "headers", headers |-> h] : h \in InboundHeaders}
  /\ output = NoCall

\* the pooled path builds the headers of session.request()
CreateHttp2Headers(options) ==
  /\ ~options.ws
  /\ output' = [fn |-> "createHttp2Headers", options |-> options,
                headers |-> createHttp2Headers(input.headers, options)]
  /\ UNCHANGED <<engineVars, input>>

\* the direct path builds the headers of http.request()
Http1Headers(options) ==
  /\ output' = [fn |-> "proxyHttp1Request", options |-> options,
                headers |-> http1Headers(input.headers, options)]
  /\ UNCHANGED <<engineVars, input>>

NextHeaders ==
  \/ \E options \in HeaderOptions : CreateHttp2Headers(options)
  \/ \E options \in HeaderOptions : Http1Headers(options)

SpecHeaders == InitHeaders /\ [][NextHeaders]_vars

\* ---- rewriteCookie applied to a set-cookie value of the upstream response

InitCookie ==
  /\ InitEngine
  /\ maxSessions = MaxSessions
  /\ maxQueueSize = MaxQueueSize
  /\ tunnels = <<>>
  /\ pluginOptions = NoPluginOptions
  /\ input \in {[fn |-> "cookie", name |-> name, attrs |-> attrs] :
                  name \in CookieNames,
                  attrs \in UNION {[1..n -> CookieAttributes] : n \in 0..MaxAttributes}}
  /\ output = NoCall

RewriteCookie(domainRewrite, pathRewrite) ==
  /\ output' = [fn |-> "rewriteCookie", domainRewrite |-> domainRewrite,
                pathRewrite |-> pathRewrite,
                cookie |-> rewriteCookie(cookieText(input.name, input.attrs),
                                         domainRewrite, pathRewrite)]
  /\ UNCHANGED <<engineVars, input>>

NextCookie ==
  \E domainRewrite \in DomainRules, pathRewrite \in PathRules :
     RewriteCookie(domainRewrite, pathRewrite)

SpecCookie == InitCookie /\ [][NextCookie]_vars

\* one origin's streams and the requests that wait for them
NextDrain ==
  \/ \E outcome \in RequestOutcomes : Arrive(MaxDrainReqs, "o1", DefaultOptions, outcome)
  \/ \E s \in 1..Len(streams) : StreamResponse(s)
  \/ \E s \in 1..Len(streams), outcome \in RequestOutcomes : StreamError(s, outcome)
  \/ \E s \in 1..Len(streams), outcome \in RequestOutcomes : StreamClose(s, outcome)
  \/ \E s \in 1..Len(streams) : StreamTimeout(s)
  \/ \E e \in 1..Len(entries) : QueueTimeout(e)

SpecDrain == InitDrain /\ [][NextDrain]_vars

\* the same, with timers that fire: a gateway timer and a queue timer that
\* stay armed run their callbacks
SpecDrainFair ==
  /\ InitDrain
  /\ [][NextDrain]_vars
  /\ \A s \in 1..MaxDrainReqs : WF_vars(s \in 1..Len(streams) /\ StreamTimeout(s))
  /\ \A e \in 1..MaxEntries : WF_vars(e \in 1..Len(entries) /\ QueueTimeout(e))

\* the protocol selection, with the probes and the direct path
NextProtocol ==
  \/ \E o \in EngineOrigins, opt \in RequestKinds, outcome \in RequestOutcomes :
        Arrive(MaxReqs, o, opt, outcome)
  \/ \E p \in 1..Len(probes), outcome \in RequestOutcomes : ProbeConnect(p, outcome)
  \/ \E p \in 1..Len(probes), outcome \in RequestOutcomes : ProbeTimeout(p, outcome)
  \/ \E p \in 1..Len(probes), outcome \in RequestOutcomes : ProbeError(p, outcome)
  \/ \E h \in 1..Len(h1reqs) : H1Response(h)
  \/ \E h \in 1..Len(h1reqs) : H1Error(h)
  \/ \E h \in 1..Len(h1reqs) : H1Timeout(h)
  \/ Shutdown

SpecProtocol == InitProtocol /\ [][NextProtocol]_vars

\* the protocol selection driven with the headers of upgrade requests
NextUpgrade ==
  \/ \E o \in EngineOrigins, headers \in UpgradeHeaders :
        ArriveWithHeaders(MaxReqs, o, headers, "ok")
  \/ \E h \in 1..Len(h1reqs) : H1Response(h)
  \/ \E s \in 1..Len(streams) : StreamResponse(s)

SpecUpgrade == InitProtocol /\ [][NextUpgrade]_vars

-----------------------------------------------------------------------------
(* Claims *)

Acquire == {"getSession", "getAvailableSession"}

\* C1: in every reachable state each pooled session has
\* activeStreams <= maxConcurrentStreams, and a request that arrives while its
\* origin's session is at its limit opens no stream.
C1_ActiveStreamsWithinLimit ==
  /\ \A o \in DOMAIN sessions :
       sessions[o].activeStreams <= sessions[o].maxConcurrentStreams
  /\ ~(last.op = "arrive" /\ "atLimit" \in last.ev /\ "opened" \in last.ev)

\* C2: the pool holds one session per origin, the one its handle was connected
\* for, and an acquire for an origin whose session is healthy returns that same
\* session, connects nothing and leaves the pool's set of origins as it was.
C2_HealthySessionReused ==
  /\ [](\A o \in DOMAIN sessions :
          /\ sessions[o].sid \in DOMAIN conns
          /\ conns[sessions[o].sid].origin = o
          /\ \A o2 \in DOMAIN sessions : sessions[o2].sid = sessions[o].sid => o2 = o)
  /\ [][\A o \in Origins :
          (last'.op \in Acquire /\ last'.o = o /\ Healthy(World, o))
          => /\ last'.id = sessions[o].sid
             /\ DOMAIN sessions' = DOMAIN sessions
             /\ sessions'[o].sid = sessions[o].sid
             /\ DOMAIN conns' = DOMAIN conns]_vars

\* C2 witness: a second acquire has returned the session already pooled
C2_Witness ==
  /\ last.op = "getSession"
  /\ "reused" \in last.ev
  /\ last.o \in DOMAIN sessions
  /\ last.id = sessions[last.o].sid
  /\ Cardinality(DOMAIN sessions) = 1

\* C8: the pool never references a session that is closed or destroyed, and
\* after a session's error or close handler has run hasSession(origin) is false.
C8_NoHalfDeadEntry ==
  /\ \A o \in DOMAIN sessions : Healthy(World, o)
  /\ last.op \in {"sessionError", "sessionClose"} => ~hasSession(World, last.o)

\* C9: the pool never holds more than maxSessions sessions.
C9_PoolSizeBounded == Cardinality(DOMAIN sessions) <= maxSessions

\* C9 witness: a session has been acquired for a new origin with the pool full
C9_Witness ==
  /\ last.op \in Acquire
  /\ {"evicted", "created"} \subseteq last.ev
  /\ Cardinality(DOMAIN sessions) = maxSessions

\* the sessions an acquire removed from the pool
Removed == (DOMAIN sessions) \ (DOMAIN sessions')

LeastRecentlyUsed(v) ==
  /\ v \in DOMAIN sessions
  /\ \A x \in DOMAIN sessions : sessions[v].lastUsed <= sessions[x].lastUsed

\* an acquire for an origin the pool does not hold, with the pool at maxSessions
AcquireNewWhenFull(o) ==
  /\ last'.op \in Acquire
  /\ last'.o = o
  /\ o \notin DOMAIN sessions
  /\ Cardinality(DOMAIN sessions) = maxSessions

\* C10 as stated: with the pool at maxSessions, an acquire for a new origin
\* closes and removes exactly one session, the least recently used, and leaves
\* the pool at size maxSessions with the new origin in it.
C10_ExactlyOneEvicted ==
  [][\A o \in Origins : AcquireNewWhenFull(o) =>
       /\ \E v \in DOMAIN sessions :
            /\ LeastRecentlyUsed(v)
            /\ Removed = {v}
            /\ conns'[sessions[v].sid].closed
       /\ Cardinality(DOMAIN sessions') = maxSessions
       /\ o \in DOMAIN sessions']_vars

\* C10 amended: the least recently used session is closed and removed and the
\* new origin is added; besides it exactly the sessions idle longer than maxAge
\* are closed and removed, so that when there is none of those one session is
\* removed and the pool is left at size maxSessions.
C10_LruEvictedAndExpiredSwept ==
  [][\A o \in Origins : AcquireNewWhenFull(o) =>
       /\ \E v \in DOMAIN sessions :
            /\ LeastRecentlyUsed(v)
            /\ v \in Removed
            /\ Removed \ {v} = {x \in (DOMAIN sessions) \ {v} :
                                  now - sessions[x].lastUsed > MaxAge}
            /\ Removed = {v} => Cardinality(DOMAIN sessions') = maxSessions
       /\ \A x \in Removed : conns'[sessions[x].sid].closed
       /\ \A x \in (DOMAIN sessions) \ Removed : sessions'[x] = sessions[x]
       /\ o \in DOMAIN sessions'
       /\ last'.id = sessions'[o].sid]_vars

\* C10 witness: the pool was full of sessions used at different times, a new
\* origin was acquired, one session was evicted and the pool is full again
C10_Witness ==
  /\ last.op = "getSession"
  /\ last.ev = {"evicted", "created"}
  /\ Cardinality(DOMAIN sessions) = maxSessions
  /\ \E x \in DOMAIN sessions : sessions[x].lastUsed < now
  /\ \E c \in DOMAIN conns : conns[c].closed /\ conns[c].pend = "close"

\* the entries that are in some origin's list
Queued == queuedIn(queue)

RECURSIVE sumLengths(_, _)
sumLengths(q, os) ==
  IF os = {} THEN 0
  ELSE LET o == CHOOSE x \in os : TRUE IN Len(q[o]) + sumLengths(q, os \ {o})

\* C3: every queued entry is resolved exactly once, by dequeue-and-resume, by
\* its timeout or by clear: it is in the queue, with its timer armed, exactly
\* until then; its callback runs at most once and only for a dequeue.
C3_ResolvedExactlyOnce ==
  \A e \in 1..Len(entries) :
    /\ Len(entries[e].done) <= 1
    /\ entries[e].cb <= 1
    /\ entries[e].cb = 1 <=> entries[e].done = <<"dequeue">>
    /\ e \in Queued <=> entries[e].done = <<>>
    /\ entries[e].timer <=> entries[e].done = <<>>

\* C3 witness: entries have been resolved in each of the three ways
C3_Witness ==
  /\ \E e \in 1..Len(entries) : entries[e].done = <<"dequeue">> /\ entries[e].cb = 1
  /\ \E e \in 1..Len(entries) : entries[e].done = <<"timeout">>
  /\ \E e \in 1..Len(entries) : entries[e].done = <<"clear">>

\* C4: the number of queued entries never exceeds maxQueueSize, and an enqueue
\* attempted at the maximum returns false and changes nothing: no entry is
\* stored, no timer is started, the depth is unchanged.
C4_QueueBounded ==
  /\ [](/\ totalQueued <= maxQueueSize
        /\ sumLengths(queue, DOMAIN queue) <= maxQueueSize)
  /\ [][(last'.op = "enqueue" /\ totalQueued >= maxQueueSize)
          => /\ "qfull" \in last'.ev
             /\ "queued" \notin last'.ev
             /\ queue' = queue
             /\ totalQueued' = totalQueued
             /\ entries' = entries]_vars

\* C4 witness: an enqueue has been refused with the queue at its maximum
C4_Witness ==
  /\ last.op = "enqueue"
  /\ "qfull" \in last.ev
  /\ totalQueued = maxQueueSize
  /\ sumLengths(queue, DOMAIN queue) = maxQueueSize

\* C5: per origin, entries are dequeued in the order they were enqueued.
C5_Fifo ==
  \A a, b \in 1..Len(entries) :
    (/\ a < b
     /\ entries[a].origin = entries[b].origin
     /\ entries[a].seq > 0
     /\ entries[b].seq > 0) => entries[a].seq < entries[b].seq

\* C5 witness: of three entries of one origin the second timed out and the
\* first and the third have been dequeued
C5_Witness ==
  \E a, x, b \in 1..Len(entries) :
    /\ a < x /\ x < b
    /\ entries[a].origin = entries[x].origin
    /\ entries[x].origin = entries[b].origin
    /\ entries[x].done = <<"timeout">>
    /\ entries[a].seq > 0
    /\ entries[b].seq > entries[a].seq

\* C6: when an entry's timer fires the entry is removed from the queue, the
\* depth goes down by one and the held response is completed with the queue
\* timeout 503; no entry whose timer has fired is in the queue.
C6_TimeoutRemovesAndRejects ==
  /\ [](\A e \in 1..Len(entries) : entries[e].done = <<"timeout">> => e \notin Queued)
  /\ [][\A e \in 1..Len(entries) :
          (last'.op = "queueTimeout" /\ last'.id = e)
          => /\ e \in Queued
             /\ e \notin queuedIn(queue')
             /\ totalQueued' = totalQueued - 1
             /\ reqs[entries[e].req].res = "none"
             /\ reqs'[entries[e].req].res = "503 queue timeout"
             /\ reqs'[entries[e].req].writes = 1]_vars

\* C6 witness: a queued request has timed out in the queue
C6_Witness ==
  /\ last.op = "queueTimeout"
  /\ entries[last.id].done = <<"timeout">>
  /\ reqs[entries[last.id].req].res = "503 queue timeout"
  /\ last.id \notin Queued

\* a handler found the stream capacity exhausted: getAvailableSession returned
\* null, or session.request() threw ERR_HTTP2_OUT_OF_STREAMS
CapacityExhausted == last.ev \cap {"null", "oos"} # {}

\* C7, first half: a request that meets exhausted capacity is put on the queue
\* with no response started, or, the queue being full, is answered 503.
QueuedOnExhaustion ==
  CapacityExhausted =>
    \/ /\ "queued" \in last.ev
       /\ \E e \in Queued : entries[e].req = last.r
       /\ reqs[last.r].res = "none"
    \/ /\ "qfull" \in last.ev
       /\ totalQueued = maxQueueSize
       /\ reqs[last.r].res = "503 queue full"

\* the entries that were never resumed: their request is waiting or was failed
Waiting(e) == entries[e].cb = 0

C11_AcquireSweepsExpired ==
  last.op \in Acquire =>
    \A o \in DOMAIN sessions : now - sessions[o].lastUsed <= MaxAge

\* the origin's pooled session has as many active streams as its limit allows
AtStreamLimit(o) ==
  /\ o \in DOMAIN sessions
  /\ sessions[o].activeStreams >= sessions[o].maxConcurrentStreams

\* C12: getAvailableSession returns null exactly when the origin's session is
\* at its concurrent-stream limit and the pool is at its session-count limit;
\* otherwise it returns a session that is neither closed nor destroyed.
C12_NullExactlyAtBothLimits ==
  [][\A o \in Origins :
       (last'.op = "getAvailableSession" /\ last'.o = o) =>
         /\ last'.id = 0 <=> (AtStreamLimit(o) /\ Cardinality(DOMAIN sessions) >= maxSessions)
         /\ last'.id # 0 => /\ last'.id \in DOMAIN conns'
                            /\ ~conns'[last'.id].closed
                            /\ ~conns'[last'.id].destroyed]_vars

\* the request the last step let into proxyHttp2Request
Arrived(r) == last'.op = "arrive" /\ last'.id = r /\ r = Len(reqs) + 1

\* what a handler notes when it asks the pool for a session
PoolAsked == {"available", "reused", "created", "null", "threw"}

\* the bypass hook lets the request through to the proxy
NotBypassed(opt) == opt.bypass \in {"none", "false"}

\* C13: a request on a route with ws: true takes the direct HTTP/1.1 path
\* whatever forceHttp1, autoDetectProtocol and its headers are: the pool is not
\* asked for a session, no counter changes, no probe is started and the request
\* is never put on the queue.
C13_WsAlwaysDirect ==
  /\ [](\A r \in 1..Len(reqs) : reqs[r].opt.ws =>
          /\ reqs[r].path \in {"h1", "bypass"}
          /\ NotBypassed(reqs[r].opt) => reqs[r].path = "h1"
          /\ \A s \in 1..Len(streams) : streams[s].req # r
          /\ \A e \in 1..Len(entries) : entries[e].req # r
          /\ \A p \in 1..Len(probes) : probes[p].req # r)
  /\ [][\A r \in 1..Len(reqs') : (Arrived(r) /\ reqs'[r].opt.ws) =>
          /\ last'.ev \cap (PoolAsked \cup {"probe", "cached", "queued", "qfull"}) = {}
          /\ UNCHANGED <<sessions, order, conns, queue, totalQueued, entries, streams,
                         probes, http2SupportMap>>
          /\ (NotBypassed(reqs'[r].opt) /\ reqs'[r].opt.router # "bad") =>
               /\ Len(h1reqs') = Len(h1reqs) + 1
               /\ h1reqs'[Len(h1reqs')].req = r]_vars

\* C13 witness: a request on a ws route that also sets autoDetectProtocol and
\* forceHttp1 went out on the direct path while the pool holds a session
C13_Witness ==
  /\ last.op = "arrive"
  /\ reqs[last.id].opt.ws
  /\ reqs[last.id].opt.autoDetectProtocol
  /\ reqs[last.id].opt.forceHttp1
  /\ ~reqs[last.id].opt.isWebSocketRequest
  /\ reqs[last.id].path = "h1"
  /\ \E h \in 1..Len(h1reqs) : h1reqs[h].req = last.id
  /\ DOMAIN sessions # {}

\* neither the route nor the headers ask for a WebSocket
NoWebSocket(opt) == ~opt.ws /\ ~opt.isWebSocketRequest

\* the request gets as far as the choice between forceHttp1, auto-detection
\* and the default
ReachesChoice(opt) == NotBypassed(opt) /\ NoWebSocket(opt) /\ opt.router # "bad"

\* C14: the precedence is WebSocket, then forceHttp1, then autoDetectProtocol,
\* then pooled HTTP/2: with forceHttp1 the request takes HTTP/1.1, no probe is
\* started and the support cache is neither read nor written, also when
\* autoDetectProtocol is set; with none of them the request takes the pooled path.
C14_Precedence ==
  [][\A r \in 1..Len(reqs') : Arrived(r) =>
       LET opt == reqs'[r].opt IN
       /\ (NotBypassed(opt) /\ ~NoWebSocket(opt)) => reqs'[r].path = "h1"
       /\ (ReachesChoice(opt) /\ opt.forceHttp1) =>
            /\ reqs'[r].path = "h1"
            /\ probes' = probes
            /\ http2SupportMap' = http2SupportMap
            /\ last'.ev \cap {"probe", "cached"} = {}
       /\ (ReachesChoice(opt) /\ ~opt.forceHttp1 /\ opt.autoDetectProtocol) =>
            \/ "probe" \in last'.ev /\ reqs'[r].path = "probe"
            \/ "cached" \in last'.ev /\ reqs'[r].path \in {"h1", "h2"}
       /\ (ReachesChoice(opt) /\ ~opt.forceHttp1 /\ ~opt.autoDetectProtocol) =>
            /\ reqs'[r].path = "h2"
            /\ last'.ev \cap PoolAsked # {}]_vars

\* C14 witness: a request with forceHttp1 and autoDetectProtocol took HTTP/1.1
\* for an origin that the cache says supports HTTP/2
C14_Witness ==
  /\ last.op = "arrive"
  /\ reqs[last.id].opt.forceHttp1
  /\ reqs[last.id].opt.autoDetectProtocol
  /\ NoWebSocket(reqs[last.id].opt)
  /\ reqs[last.id].path = "h1"
  /\ last.o \in DOMAIN http2SupportMap
  /\ http2SupportMap[last.o]

\* the request is decided by auto-detection
AutoDetected(opt) == ReachesChoice(opt) /\ ~opt.forceHttp1 /\ opt.autoDetectProtocol

\* C15: with autoDetectProtocol an origin with no cached result is probed; the
\* probe's connect caches true and sends the waiting request down the pooled
\* path, its timeout or error caches false and sends it to HTTP/1.1; a request
\* for an origin with a cached result follows it and opens no probe.
C15_ProbeOnceThenCache ==
  [][/\ \A r \in 1..Len(reqs') : (Arrived(r) /\ AutoDetected(reqs'[r].opt)) =>
          LET o == reqs'[r].origin IN
          IF o \in DOMAIN http2SupportMap
          THEN /\ probes' = probes
               /\ http2SupportMap' = http2SupportMap
               /\ reqs'[r].path = IF http2SupportMap[o] THEN "h2" ELSE "h1"
          ELSE /\ Len(probes') = Len(probes) + 1
               /\ probes'[Len(probes')].req = r
               /\ probes'[Len(probes')].origin = o
               /\ http2SupportMap' = http2SupportMap
               /\ reqs'[r].path = "probe"
     /\ \A p \in 1..Len(probes) :
          (last'.op \in {"probeConnect", "probeTimeout", "probeError"}
           /\ last'.id = p /\ ~probes[p].resolved) =>
            LET useHttp2 == last'.op = "probeConnect" IN
            /\ probes[p].origin \in DOMAIN http2SupportMap'
            /\ http2SupportMap'[probes[p].origin] = useHttp2
            /\ reqs[probes[p].req].path = "probe"
            /\ reqs'[probes[p].req].path = IF useHttp2 THEN "h2" ELSE "h1"
            /\ probes' = [probes EXCEPT ![p] = probes'[p]]]_vars

\* C15 witness: one probe was opened, it connected, and a second request for
\* the origin took the pooled path on the cached result
C15_Witness ==
  /\ last.op = "arrive"
  /\ "cached" \in last.ev
  /\ reqs[last.id].path = "h2"
  /\ Len(probes) = 1
  /\ probes[1].connected
  /\ probes[1].origin = last.o
  /\ reqs[probes[1].req].path = "h2"

\* C16: when the per-request timer fires before the response headers the
\* stream is cancelled and the client gets 504; the response headers clear the
\* timer, so that it never fires for a stream whose headers have arrived.
C16_GatewayTimeout ==
  /\ [](\A s \in 1..Len(streams) : streams[s].responded => ~streams[s].timer)
  /\ [][\A s \in 1..Len(streams) :
          (last'.op = "streamTimeout" /\ last'.id = s) =>
            /\ ~streams[s].responded
            /\ streams[s].st = "open"
            /\ streams'[s].st = "closing"
            /\ ~streams'[s].timer
            /\ reqs'[streams[s].req].res = "504 gateway timeout"]_vars

\* C16 witness: a stream's timer fired and the client got 504
C16_Witness ==
  /\ last.op = "streamTimeout"
  /\ streams[last.id].st = "closing"
  /\ ~streams[last.id].responded
  /\ reqs[streams[last.id].req].res = "504 gateway timeout"
  /\ reqs[streams[last.id].req].writes = 1

\* proxyTimeout if set, else timeout if set, else the 120 s default
GuardDuration(opt) ==
  IF opt.proxyTimeout > 0 THEN opt.proxyTimeout
  ELSE IF opt.timeout > 0 THEN opt.timeout
  ELSE DefaultTimeout

\* C17: every forwarded request, pooled or direct, is guarded by a timeout of
\* proxyTimeout, else timeout, else the 120 s default.
C17_EveryForwardTimed ==
  /\ \A s \in 1..Len(streams) :
       /\ streams[s].timeout = GuardDuration(reqs[streams[s].req].opt)
       /\ (streams[s].st = "open" /\ ~streams[s].responded) => streams[s].timer
  /\ \A h \in 1..Len(h1reqs) :
       /\ h1reqs[h].timeout = GuardDuration(reqs[h1reqs[h].req].opt)
       /\ h1reqs[h].st = "open" => h1reqs[h].timer

\* C18: shutdown, in one step, completes every queued request with 503, closes
\* every pooled session and clears the protocol-support cache: right after it
\* the queue depth is 0, the pool holds no session and the cache is empty.
C18_ShutdownClearsAll ==
  [][last'.op = "shutdown" =>
       /\ \A e \in Queued : /\ reqs'[entries[e].req].res = "503 shutting down"
                            /\ ~entries'[e].timer
       /\ \A o \in DOMAIN sessions : conns'[sessions[o].sid].closed
       /\ totalQueued' = 0
       /\ queue' = EmptyMap
       /\ Cardinality(DOMAIN sessions') = 0
       /\ order' = <<>>
       /\ http2SupportMap' = EmptyMap]_vars

\* C18 witness: a shutdown found a request waiting, a session pooled and a
\* probe result cached
C18_Witness ==
  /\ last.op = "shutdown"
  /\ Len(reqs) = 1
  /\ reqs[1].res = "503 shutting down"
  /\ \E e \in 1..Len(entries) : entries[e].done = <<"clear">>
  /\ \E c \in DOMAIN conns : conns[c].closed
  /\ \E p \in 1..Len(probes) : probes[p].resolved /\ probes[p].connected
  /\ http2SupportMap = EmptyMap

\* C19: clear() completes every queued entry's response with the shutdown 503,
\* cancels every entry's timer, so that no queue timeout runs afterwards, and
\* leaves no entry for any origin and a total depth of 0.
C19_ClearRejectsAll ==
  /\ [](\A e \in 1..Len(entries) : entries[e].done = <<"clear">> =>
          /\ ~entries[e].timer
          /\ reqs[entries[e].req].res = "503 shutting down"
          /\ reqs[entries[e].req].writes = 1)
  /\ [][last'.op = "clear" =>
          /\ \A e \in Queued : /\ entries'[e].done = <<"clear">>
                               /\ reqs'[entries[e].req].res = "503 shutting down"
          /\ \A e \in 1..Len(entries') : ~entries'[e].timer
          /\ queue' = EmptyMap
          /\ totalQueued' = 0]_vars

\* C19 witness: clear() has rejected entries of two origins
C19_Witness ==
  /\ last.op = "clear"
  /\ queue = EmptyMap
  /\ \E a, b \in 1..Len(entries) :
       /\ entries[a].origin # entries[b].origin
       /\ entries[a].done = <<"clear">>
       /\ entries[b].done = <<"clear">>
       /\ reqs[entries[a].req].res = "503 shutting down"
       /\ reqs[entries[b].req].res = "503 shutting down"

\* the origin's list of waiting entries
Waiters(o) == IF o \in DOMAIN queue THEN queue[o] ELSE <<>>

Forwarding(r) ==
  \/ \E s \in 1..Len(streams) : streams[s].req = r
  \/ \E e \in 1..Len(entries) : entries[e].req = r
  \/ \E h \in 1..Len(h1reqs) : h1reqs[h].req = r
  \/ \E p \in 1..Len(probes) : probes[p].req = r

\* C21: the bypass hook decides before any forwarding.  A string result sets
\* the inbound URL and calls next() exactly once, any other truthy result calls
\* next() exactly once, and in both cases the arrival resolves no target,
\* asks the pool for nothing, enqueues nothing and starts no upstream request
\* or probe, then or later; false, null, undefined (and a route without a
\* hook) continue the pipeline without calling next().
C21_BypassDecidesFirst ==
  [][ /\ \A r \in 1..Len(reqs') :
          LET q == reqs'[r] IN
          /\ q.opt.bypass = "string" => q.urlRewritten /\ q.nexts = 1
          /\ q.opt.bypass = "true" => ~q.urlRewritten /\ q.nexts = 1
          /\ q.opt.bypass \in {"string", "true"} =>
                /\ q.path = "bypass" /\ q.routerCalls = 0 /\ q.res = "none"
                /\ ~Forwarding(r)'
                /\ Arrived(r) =>
                      /\ last'.ev \subseteq {"atLimit"}
                      /\ UNCHANGED <<sessions, order, conns, queue, totalQueued,
                                     entries, streams, probes, h1reqs, http2SupportMap>>
          /\ q.opt.bypass \in {"none", "false", "null"} =>
                q.nexts = 0 /\ ~q.urlRewritten /\ q.path \notin {"none", "bypass"}
    ]_vars

\* a request whose hook returned a string was handed on although its router
\* returns no URL, and a second request whose hook returned null was answered
\* by the proxy
C21_Witness ==
  /\ Len(reqs) = 2
  /\ reqs[1].opt.bypass = "string" /\ reqs[1].opt.router = "bad"
  /\ reqs[1].urlRewritten /\ reqs[1].nexts = 1 /\ reqs[1].res = "none"
  /\ reqs[2].opt.bypass = "null" /\ reqs[2].nexts = 0 /\ reqs[2].path = "h2"

\* the number of colons of an auth string
Colons(auth) == Cardinality({i \in 1..Len(auth) : auth[i] = ":"})

\* a non-empty username and a non-empty password separated by one colon
WellFormedAuth(auth) ==
  /\ Colons(auth) = 1
  /\ auth[1] # ":"
  /\ auth[Len(auth)] # ":"

\* C22: every acquire whose auth option is not a non-empty username and a
\* non-empty password separated by one colon fails, with the format error
\* when the number of colons is not one and with the empty-credential error
\* otherwise; an acquire with a well-formed auth succeeds.  (An absent or
\* empty auth option is not looked at.)
C22_InvalidAuthFails ==
  [][ (last'.op \in Acquire /\ last'.auth # NoAuth) =>
        IF WellFormedAuth(last'.auth)
        THEN last'.err = "none" /\ last'.id # 0
        ELSE IF Colons(last'.auth) # 1
        THEN last'.err = "Invalid auth format"
        ELSE last'.err = "Auth username and password cannot be empty"
    ]_vars

\* the 502 answers of the proxy
BadGateway == {"502 bad gateway", "502 stream create", "502 no session"}

\* request r arrives on a route whose router returns no URL, and the bypass
\* hook does not take it
ArrivedWithBadRouter(r) ==
  Arrived(r) /\ reqs'[r].opt.router = "bad" /\ NotBypassed(reqs'[r].opt)

\* the arrival acquires no session, enqueues nothing and issues no upstream
\* request or probe
NothingStarted ==
  /\ last'.ev \subseteq {"atLimit"}
  /\ UNCHANGED <<sessions, order, conns, queue, totalQueued, entries, streams,
                 probes, h1reqs, http2SupportMap>>

\* C23 (as claimed): a request whose router returns a value that is no
\* absolute URL is answered with a 502, and nothing is started for it.
C23_BadRouterIs502 ==
  [][ \A r \in 1..Len(reqs') :
        ArrivedWithBadRouter(r) => reqs'[r].res \in BadGateway /\ NothingStarted
    ]_vars

\* C23 (amended): such a request is answered 500 "Internal Server Error:
\* Invalid proxy target", exactly once, and no session is acquired, nothing
\* is enqueued and no upstream request or probe is issued, on the pooled
\* and on the direct path.
C23_BadRouterIs500 ==
  [][ \A r \in 1..Len(reqs') :
        ArrivedWithBadRouter(r) =>
          /\ reqs'[r].res = "500 invalid target"
          /\ reqs'[r].writes = 1
          /\ reqs'[r].routerCalls = 1
          /\ NothingStarted
    ]_vars

\* a WebSocket route and a plain route have both been refused for their router
C23_Witness ==
  /\ Len(reqs) = 2
  /\ \A r \in 1..2 : reqs[r].opt.router = "bad" /\ reqs[r].res = "500 invalid target"
  /\ reqs[1].opt.ws /\ reqs[1].path = "h1"
  /\ ~reqs[2].opt.ws /\ reqs[2].opt.bypass = "false" /\ reqs[2].path = "failed"
  /\ h1reqs = <<>> /\ sessions = EmptyMap

\* the hop-by-hop headers no upstream request may carry
HopByHop ==
  {"connection", "keep-alive", "transfer-encoding", "proxy-connection", "te", "trailer",
   "upgrade"}

\* the outbound headers were built for a WebSocket path
WebSocketPath ==
  /\ output.fn = "proxyHttp1Request"
  /\ \/ output.options.ws
     \/ "upgrade" \in DOMAIN input.headers /\ input.headers["upgrade"] = "websocket"

\* C24: the outbound headers of a forwarded request, on the pooled and on the
\* direct path, carry no inbound pseudo-header and none of connection,
\* keep-alive, transfer-encoding, proxy-connection, te, trailer, upgrade;
\* connection and upgrade are kept on a WebSocket path only; every other
\* inbound header is passed through (host may be replaced by the target's).
C24_OutboundHeadersFiltered ==
  output.fn # "none" =>
    LET out == output.headers
        req == input.headers
        retained == IF WebSocketPath THEN {"connection", "upgrade"} ELSE {}
    IN /\ \A k \in DOMAIN out \cap PseudoNames : out[k] = "proxy"
       /\ \A k \in HopByHop \ retained : k \notin DOMAIN out
       /\ \A k \in (DOMAIN req) \ (PseudoNames \cup (HopByHop \ retained)) :
             /\ k \in DOMAIN out
             /\ out[k] = req[k] \/ (k = "host" /\ output.options.changeOrigin)

\* the attribute a rule asks for: the value replaced when the attribute is
\* the named one and the rule is a string or a map with its old value as key
Rewritten(attr, rule, word, attribute) ==
  IF /\ Len(attr) = 3
     /\ toLowerCase(attr[1]) = word
     /\ \/ rule.kind = "string"
        \/ rule.kind = "map" /\ attr[3] = rule.from
  THEN <<attribute, "=", rule.to>>
  ELSE attr

\* the first attribute of the list with the given name (0: none)
FirstNamed(attrs, word) ==
  LET at == {i \in 1..Len(attrs) : toLowerCase(attrs[i][1]) = word}
  IN IF at = {} THEN 0 ELSE CHOOSE x \in at : \A y \in at : x <= y

\* C25: rewriteCookie changes the Domain and the Path attribute only: a
\* string rule replaces the attribute's value, a map rule replaces it when the
\* old value is a key of the map, and the name, the value, the other
\* attributes and their order are those of the input.
C25_OnlyDomainAndPathChange ==
  output.fn = "rewriteCookie" =>
    LET d == FirstNamed(input.attrs, "domain")
        p == FirstNamed(input.attrs, "path")
        attrs == [i \in 1..Len(input.attrs) |->
                    IF i = d
                    THEN Rewritten(input.attrs[i], output.domainRewrite, "domain", "Domain")
                    ELSE IF i = p
                    THEN Rewritten(input.attrs[i], output.pathRewrite, "path", "Path")
                    ELSE input.attrs[i]]
    IN output.cookie = cookieText(input.name, attrs)

\* a socket that is ended, destroyed or closed
Down(s) == s.ended \/ s.destroyed \/ s.gone

\* C26: in a WebSocket tunnel a close or an error of one socket leads to the
\* other socket being ended or destroyed, also when the client goes away
\* before the upstream connection is established: no socket stays open for
\* ever beside a closed one.
C26_TeardownPropagates ==
  \A t \in 1..MaxTunnels :
    /\ (Len(tunnels) >= t /\ tunnels[t].client.gone)
          ~> (Len(tunnels) >= t /\
              \/ tunnels[t].phase = "refused"
              \/ tunnels[t].phase = "wired" /\ Down(tunnels[t].upstream))
    /\ (Len(tunnels) >= t /\ tunnels[t].phase = "wired" /\ tunnels[t].upstream.gone)
          ~> (Len(tunnels) >= t /\ Down(tunnels[t].client))

\* the limit the plugin was configured with, or the default
Configured(option, default) == IF option = Undefined THEN default ELSE option

\* C27: the pool enforces the limits given to the plugin: it never holds more
\* than the configured maxSessions sessions, and a sweep expires a session
\* only if it was idle longer than the configured sessionMaxAge; the defaults
\* count only where the option is omitted.
C27_PoolEnforcesPluginOptions ==
  [][ /\ Cardinality(DOMAIN sessions') <= Configured(pluginOptions.maxSessions, MaxSessions)
      /\ "expired" \in last'.ev =>
            \E o \in (DOMAIN sessions) \ (DOMAIN sessions') :
               now - sessions[o].lastUsed > Configured(pluginOptions.sessionMaxAge, MaxAge)
    ]_vars

\* the route sets neither timeout nor proxyTimeout
SetsNeither(route) == route.timeout = Undefined /\ route.proxyTimeout = Undefined

\* the normalized route carries the plugin's defaults
CarriesDefaults(opt) ==
  /\ opt.timeout = pluginOptions.defaultTimeout
  /\ opt.proxyTimeout = pluginOptions.defaultProxyTimeout

\* C28: for every route that sets neither timeout nor proxyTimeout, the
\* normalized route that handles an ordinary request, and the one that
\* handles an upgrade, carry the plugin's defaultTimeout and
\* defaultProxyTimeout.
C28_GlobalDefaultsApply ==
  /\ \A r \in 1..Len(reqs) : SetsNeither(reqs[r].route) => CarriesDefaults(reqs[r].opt)
  /\ \A t \in 1..Len(tunnels) :
        SetsNeither(tunnels[t].route) => CarriesDefaults(tunnels[t].opt)

\* what the pool is made of: its map, its handles, its limits
PoolState == <<sessions, order, conns, maxSessions>>

\* C29: close() is idempotent: from any pool state a close() raises no error
\* and leaves an empty pool (session count 0), and a close() that directly
\* follows a close() leaves the pool in the state the first one left it in.
C29_CloseIdempotent ==
  [][ last'.op = "close" =>
        /\ last'.err = "none"
        /\ sessions' = EmptyMap
        /\ Cardinality(DOMAIN sessions') = 0
        /\ last.op = "close" => PoolState' = PoolState
    ]_vars

\* two close() calls in a row, the first of which closed a session
C29_Witness ==
  /\ last.op = "close"
  /\ "again" \in last.ev
  /\ sessions = EmptyMap
  /\ \E sid \in DOMAIN conns : conns[sid].closed

\* C30: a session's active-stream counter is never negative, whatever the
\* sequence of incrementActiveStreams and decrementActiveStreams calls, also
\* after a decrement at 0 or for an origin without a session.
C30_ActiveStreamsNeverNegative ==
  \A o \in DOMAIN sessions : sessions[o].activeStreams >= 0

\* a decrement found a session whose counter was already 0
C30_Witness ==
  /\ last.op = "decrement"
  /\ "floor" \in last.ev
  /\ last.o \in DOMAIN sessions
  /\ sessions[last.o].activeStreams = 0

\* the request carries one of the three headers
CarriesUpgradeHeader(h) ==
  DOMAIN h \cap {"upgrade", "sec-websocket-key", "sec-websocket-version"} # {}

\* the request went down the direct HTTP/1.1 path and the pool was left alone
WentDirect(r) ==
  /\ reqs'[r].path = "h1"
  /\ last'.ev \cap PoolAsked = {}
  /\ sessions' = sessions
  /\ streams' = streams
  /\ Len(h1reqs') = Len(h1reqs) + 1

\* C31 as stated: a request on a route without ws that carries an upgrade
\* header, or a sec-websocket-key header, or a sec-websocket-version header
\* is forwarded over HTTP/1.1 and never over the pooled HTTP/2 path.
C31_AnyUpgradeHeaderGoesDirect ==
  [][\A r \in 1..Len(reqs') :
       (Arrived(r) /\ ~reqs'[r].route.ws /\ CarriesUpgradeHeader(reqs'[r].headers))
          => WentDirect(r)]_vars

\* the value names websocket, whatever its case
NamesWebSocket(v) == v \in {<<"websocket">>, <<"WebSocket">>}

\* the value mentions upgrade, whatever its case
MentionsUpgrade(v) == \E i \in 1..Len(v) : v[i] \in {"upgrade", "Upgrade"}

\* the headers of a WebSocket handshake
LooksLikeWebSocket(h) ==
  \/ "upgrade" \in DOMAIN h /\ NamesWebSocket(h["upgrade"])
  \/ /\ "connection" \in DOMAIN h /\ MentionsUpgrade(h["connection"])
     /\ "sec-websocket-key" \in DOMAIN h
  \/ "sec-websocket-version" \in DOMAIN h

\* C31: a request on a route without ws is forwarded over HTTP/1.1, and not
\* over the pooled HTTP/2 path, when its upgrade header names websocket, or
\* its connection header mentions upgrade and it has a sec-websocket-key, or
\* it has a sec-websocket-version; any other request on a plain route takes
\* the pooled path.
C31_WebSocketRequestGoesDirect ==
  [][\A r \in 1..Len(reqs') :
       (Arrived(r) /\ ~reqs'[r].route.ws) =>
          IF LooksLikeWebSocket(reqs'[r].headers)
          THEN WentDirect(r)
          ELSE reqs'[r].path = "h2" /\ last'.ev \cap PoolAsked # {}]_vars

\* a request with connection: keep-alive, Upgrade and a sec-websocket-key, and
\* no upgrade header, went down the direct path
C31_Witness ==
  /\ last.op = "arrive"
  /\ DOMAIN reqs[last.id].headers = {"connection", "sec-websocket-key"}
  /\ MentionsUpgrade(reqs[last.id].headers["connection"])
  /\ ~reqs[last.id].route.ws
  /\ reqs[last.id].path = "h1"
  /\ \E h \in 1..Len(h1reqs) : h1reqs[h].req = last.id

\* C32: over the lifetime of every stream that processProxiedRequest opened,
\* the handlers of the stream lower the origin's active-stream counter exactly
\* once (at most once while the stream lives, once when it has closed) and
\* resume at most one queued request, also when the stream emits error and
\* then close, and when the gateway timer cancels it.
C32_OneDecrementOneDrainPerStream ==
  \A s \in 1..Len(streams) :
     /\ streams[s].decs <= 1
     /\ streams[s].drains <= 1
     /\ streams[s].st = "closed" => streams[s].decs = 1

\* C33: an error or close event of a session that is not the pool's current
\* entry for its origin (it was evicted, expired, or replaced after it was
\* found closed) leaves every live session of the pool in place, the current
\* one of its own origin included.
C33_StaleEventsLeaveLiveSession ==
  [][last'.op \in {"sessionError", "sessionClose"} =>
       \A o \in DOMAIN sessions :
          (Healthy(World, o) /\ sessions[o].sid # last'.id) =>
             (o \in DOMAIN sessions' /\ sessions'[o] = sessions[o])]_vars

\* C34: the status line and headers of a client response are written at
\* most once per request, under every interleaving of upstream response
\* headers, stream error, gateway timeout, queue timeout, queue-full rejection
\* and queue clear.
C34_ResponseStartedAtMostOnce ==
  \A r \in 1..Len(reqs) : reqs[r].writes <= 1

\* a stream failed after its response headers had been passed on, and the
\* error handler wrote nothing
C34_Witness ==
  /\ last.op = "streamError"
  /\ streams[last.id].responded
  /\ reqs[streams[last.id].req].res = "upstream"
  /\ reqs[streams[last.id].req].writes = 1

\* C35: every request that enters the pooled path (on a route without
\* selfHandleResponse) eventually has its client response started, given that
\* timers that are armed fire: no request waits for ever in the queue or on an
\* open stream.
C35_PooledRequestAnswered ==
  \A r \in 1..MaxDrainReqs :
     (r \in 1..Len(reqs) /\ reqs[r].path = "h2") ~> (r \in 1..Len(reqs) /\ reqs[r].res # "none")

\* C36: once supportsHttp2 has cached a result for an origin the cached
\* boolean stays as it is until shutdown clears the cache: no later event of
\* the same probe and no concurrent probe for the origin stores another value.
C36_CachedResultStable ==
  [][last'.op # "shutdown" =>
       \A o \in DOMAIN http2SupportMap :
          o \in DOMAIN http2SupportMap' /\ http2SupportMap'[o] = http2SupportMap[o]]_vars

\* C37: the router function of a route is called at most once for one
\* inbound request, on every protocol branch (pooled, forceHttp1, the
\* HTTP/1.1 fallback of auto-detection).
C37_RouterCalledAtMostOnce ==
  \A r \in 1..Len(reqs) : reqs[r].routerCalls <= 1

\* the healthy sessions of origins other than o that a sweep would keep
FreshOthers(o) ==
  {x \in (DOMAIN sessions) \ {o} :
     Healthy(World, x) /\ now - sessions[x].lastUsed <= MaxAge}

\* C38: when getSession replaces a closed or destroyed entry for an origin
\* while the pool holds maxSessions entries, no healthy session of another
\* origin is evicted: only the dead entry is replaced, and the size of the
\* pool is unchanged.
C38_ReplacingDeadEntryEvictsNothing ==
  [][(/\ last'.op = "getSession"
      /\ "created" \in last'.ev
      /\ last'.o \in DOMAIN sessions
      /\ Cardinality(DOMAIN sessions) = maxSessions)
     => /\ \A x \in FreshOthers(last'.o) :
             /\ x \in DOMAIN sessions'
             /\ sessions'[x].sid = sessions[x].sid
             /\ ~conns'[sessions[x].sid].closed
        /\ FreshOthers(last'.o) = (DOMAIN sessions) \ {last'.o}
             => Cardinality(DOMAIN sessions') = Cardinality(DOMAIN sessions)]_vars

\* the origins with a list before or after the step, the one the step is
\* about left out
OtherOrigins(o) == ((DOMAIN queue) \cup (DOMAIN queue')) \ {o}

\* C39: in every state of the RequestQueue the total depth equals the sum of
\* the per-origin depths and no origin maps to an empty list; an enqueue, a
\* dequeue or a timeout for one origin leaves the list of every other origin
\* as it was.
C39_QueueAccounting ==
  /\ [](/\ totalQueued = sumLengths(queue, DOMAIN queue)
        /\ \A o \in EngineOrigins :
              getQueueDepth(World, o) = Cardinality({e \in Queued : entries[e].origin = o})
        /\ \A o \in DOMAIN queue : Len(queue[o]) > 0)
  /\ [][last'.op \in {"enqueue", "dequeue", "queueTimeout"} =>
          \A o \in OtherOrigins(last'.o) :
             /\ o \in DOMAIN queue
             /\ o \in DOMAIN queue'
             /\ queue'[o] = queue[o]]_vars

\* a dequeue emptied the list of one origin while another origin has a
\* request waiting
C39_Witness ==
  /\ last.op = "dequeue"
  /\ last.id # 0
  /\ last.o \notin DOMAIN queue
  /\ DOMAIN queue # {}
  /\ totalQueued = sumLengths(queue, DOMAIN queue)
  /\ totalQueued >= 1

\* C40: a getSession call that fails the validation of the auth string
\* leaves the pool as it was: no session is added, evicted or expired, no
\* lastUsed changes, and no connection and no connection timer is created.
C40_FailedAuthChangesNothing ==
  [][(last'.op \in {"getSession", "getAvailableSession"} /\ last'.err # "none") =>
       /\ "threw" \in last'.ev
       /\ last'.ev \cap {"created", "evicted", "expired", "reused"} = {}
       /\ sessions' = sessions
       /\ order' = order
       /\ conns' = conns]_vars

\* a getSession failed on its auth string for an origin whose entry is closed,
\* with the pool at maxSessions and a session in it that a sweep would expire
C40_Witness ==
  /\ last.op = "getSession"
  /\ last.err # "none"
  /\ ~WellFormedAuth(last.auth)
  /\ last.o \in DOMAIN sessions
  /\ ~Healthy(World, last.o)
  /\ Cardinality(DOMAIN sessions) = maxSessions
  /\ \E o \in DOMAIN sessions : now - sessions[o].lastUsed > MaxAge

====
